---- MODULE Spec2Model ----
(***************************************************************************)
(* Context-window splitter (scripts/split_labels_by_category.py) and       *)
(* referential-integrity verifier (scripts/verify_outputs.py).             *)
(*                                                                         *)
(* JSON objects are functions from key strings to values, JSON arrays are  *)
(* sequences, and a character string that the code inspects is a sequence  *)
(* of one-character strings.  A directory tree is a function from the      *)
(* category directory to the content of the one file of the source file    *)
(* under it; a file exists iff its category is in the DOMAIN.              *)
(***************************************************************************)
EXTENDS Integers, Sequences, FiniteSets, TLC

VARIABLES
    contextMap,     \* the policy table the splitter reads (module global CONTEXT_MAP)
    input_file,     \* what open(input_file_path) / json.load give the splitter
    output_file,    \* what output_file_path.exists() / json.load give the splitter
    failAt,         \* environment: the failAt-th write of the task raises OSError (0: none)
    splitInput,     \* SPLIT_INPUT_DIR/<model>/<category>/input_<base>_<category>.json
    splitOutput,    \* SPLIT_OUTPUT_DIR/<model>/<category>/output_<base>_<category>.json
    splitDirs,      \* category directories made under SPLIT_INPUT_DIR/<model>
    split_result,   \* the record process_file_pair returned, NoResult before
    split_raisedAt, \* where the task's exception was raised: "none", "read" or a category
    verify_task,    \* the category directory of the pair handed to verify_pair
    verify_result,  \* the tuple verify_pair returned, NoResult before
    symbol_name,    \* argument of clean_symbol_name
    cleaned,        \* value clean_symbol_name returned, NoResult before
    recleaned,      \* value of clean_symbol_name on that value, NoResult before
    selector_input,   \* argument of extract_selector_name
    selector_form,  \* how the argument was composed: its receiver path, identifier, arguments
    extracted,      \* value extract_selector_name returned, NoResult before
    pool_driver,    \* which main is running: "split", "verify" ("none": neither)
    pool_inputs,    \* the files of INPUT_ROOT_DIR, as os.listdir reports them
    pool_outputs,   \* the files of OUTPUT_ROOT_DIR, as os.listdir reports them
    pool_windows,   \* the trees input_label_split and output_label_split, by path
    pool_pc,        \* position of main: "start", "map" (in pool.map), "done", "aborted"
    pool_tasks,     \* the list `tasks` handed to pool.map
    pool_results,   \* what each task handed back, NoResult while it has not run
    pool_summary    \* the summary main printed, NoResult before

vars == <<contextMap, input_file, output_file, failAt, splitInput, splitOutput,
          splitDirs, split_result, split_raisedAt, verify_task, verify_result, symbol_name, cleaned,
          recleaned, selector_input, selector_form, extracted, pool_driver, pool_inputs,
          pool_outputs, pool_windows, pool_pc, pool_tasks, pool_results, pool_summary>>

splitVars == <<contextMap, input_file, output_file, failAt, splitInput, splitOutput,
               splitDirs, split_result, split_raisedAt>>
verifyVars == <<verify_task, verify_result>>
cleanVars == <<symbol_name, cleaned, recleaned>>
selectorVars == <<selector_input, selector_form, extracted>>
poolVars == <<pool_driver, pool_inputs, pool_outputs, pool_windows, pool_pc, pool_tasks,
              pool_results, pool_summary>>

-----------------------------------------------------------------------------
(* Bounds of the model.                                                    *)

MaxKeys == 2        \* categories in one decisions graph
MaxSyms == 2        \* symbols in one symbol list
MaxFail == 2        \* write operations at which the environment may fail
MaxLen == 5         \* characters in a string handed to clean_symbol_name
MaxPath == 2        \* components of the receiver path of a selector expression
MaxTasks == 3       \* files in a directory listing, pairs in a window tree

-----------------------------------------------------------------------------
(* Generic helpers for dictionaries and sequences.                         *)

EmptyDict == [k \in {} |-> {}]

\* A file that parses as JSON, and one that does not.
Json(content) == [kind |-> "json", content |-> content]
Unreadable == [kind |-> "unreadable"]

NoResult == [status |-> "NONE"]

Range(s) == {s[i] : i \in 1..Len(s)}

\* ch in s
HasChar(s, ch) == \E i \in 1..Len(s) : s[i] = ch

\* d.values() as a set
Values(d) == {d[k] : k \in DOMAIN d}

\* d[key] = value on a dict
Put(d, key, value) ==
    [k \in (DOMAIN d) \cup {key} |-> IF k = key THEN value ELSE d[k]]

-----------------------------------------------------------------------------
(* The splitter: scripts/split_labels_by_category.py                       *)

\* A dict with insertion order: a sequence of <<key, value>> entries.
CONTEXT_MAP ==
    << <<"methods", <<"classes", "structs", "enums", "protocols", "extensions", "methods",
                      "initializers", "deinitializers", "subscripts", "variables">> >>,
       <<"properties", <<"classes", "structs", "enums", "protocols", "extensions",
                         "properties", "variables", "enumCases">> >>,
       <<"variables", <<"classes", "structs", "enums", "protocols", "extensions",
                        "variables", "properties", "methods">> >>,
       <<"initializers", <<"classes", "structs", "enums", "protocols", "extensions",
                           "initializers">> >>,
       <<"deinitializers", <<"classes", "structs", "enums", "protocols", "extensions",
                             "deinitializers">> >>,
       <<"subscripts", <<"classes", "structs", "enums", "protocols", "extensions",
                         "subscripts">> >>,
       <<"enumCases", <<"enums", "enumCases">> >>,
       <<"classes", <<"classes", "protocols", "structs">> >>,
       <<"structs", <<"structs", "protocols", "classes">> >>,
       <<"enums", <<"enums", "protocols", "enumCases", "classes">> >>,
       <<"protocols", <<"protocols">> >>,
       <<"extensions", <<"extensions", "classes", "structs", "enums", "protocols">> >> >>

\* The substitute policy of the specification's Scenario A.
SCENARIO_MAP == << <<"methods", <<"methods", "initializers">> >> >>

\* list(cmap.keys())
TARGET_CATEGORIES(cmap) == [i \in 1..Len(cmap) |-> cmap[i][1]]

HasKey(cmap, category) == \E i \in 1..Len(cmap) : cmap[i][1] = category

\* Faulty variant: the entry of a category does not list the category itself.
GetOthers(cmap, category) ==
    LET Other(key) == key # category
    IN SelectSeq(cmap[CHOOSE i \in 1..Len(cmap) : cmap[i][1] = category][2], Other)

\* cmap.get(category), for a category that is a key
Get(cmap, category) ==
    cmap[CHOOSE i \in 1..Len(cmap) : cmap[i][1] = category][2]

\* Every category name an analyzer graph or a label output may use as a key.
Categories ==
    {"methods", "properties", "variables", "initializers", "deinitializers", "subscripts",
     "enumCases", "classes", "structs", "enums", "protocols", "extensions", "typealiases"}


\* --- the data one task may meet ---------------------------------------------

\* Categories the analyzer graphs of the model draw their keys from.
GraphCats == {"methods", "classes", "enumCases", "typealiases"}

\* Categories the label-stage outputs of the model draw their keys from.
OutCats == {"methods", "initializers", "typealiases"}

\* A JSON string value and a JSON array value of a feature.
Str(chars) == [t |-> "str", v |-> chars]
List(items) == [t |-> "list", v |-> items]
Num(n) == [t |-> "num", v |-> n]

BaseName(c) ==
    CASE c = "methods" -> <<"f", "o", "o", "(", "x", ":", ")">>
      [] c = "classes" -> <<"B", "a", "r">>
      [] c = "enumCases" -> <<".", "n", "o", "r", "t", "h">>
      [] c = "initializers" -> <<"i", "n", "i", "t", "(", ")">>
      [] OTHER -> <<"I", "d">>

\* The i-th symbol the analyzer reports in category c, with one feature.
SymbolOf(c, i) ==
    [symbol_name |-> IF i = 1 THEN BaseName(c) ELSE <<"x">> \o BaseName(c),
     input |-> [p3 |-> Str(<<"p", "u", "b">>)]]

SymbolList(c, n) == [i \in 1..n |-> SymbolOf(c, i)]

\* The i-th symbol the label stage lists under c (a symbol with its rationale).
LabelOf(c, i) ==
    [symbol_name |-> (IF i = 1 THEN BaseName(c) ELSE <<"x">> \o BaseName(c)),
     reason |-> <<"r">>]

LabelList(c, n) == [i \in 1..n |-> LabelOf(c, i)]

KeySets(universe, max) == {K \in SUBSET universe : Cardinality(K) <= max}

\* The decisions graphs: at most MaxKeys categories, each with 0..MaxSyms symbols.
Graphs ==
    UNION {{[c \in K |-> SymbolList(c, n[c])] : n \in [K -> 0..MaxSyms]}
           : K \in KeySets(GraphCats, MaxKeys)}

TheMapping == [calls_out |-> "p16", selector_refs |-> "p9"]
TheMeta == [file |-> <<"A">>]

InputFiles ==
    {Unreadable}
    \cup {Json([mapping |-> TheMapping, data |-> [meta |-> TheMeta, decisions |-> g]])
          : g \in Graphs}

\* Key sets of the label-stage outputs of the model.
OutKeySets == {{}, {"methods"}, {"initializers"}, {"typealiases"},
               {"methods", "initializers"}}

\* The label-stage output graphs: each category with 0..MaxSyms symbols.
OutGraphs ==
    UNION {{[c \in K |-> LabelList(c, n[c])] : n \in [K -> 0..MaxSyms]} : K \in OutKeySets}

\* output_file_path is Path() (no label output matched: the current directory),
\* a path that no longer exists, a file that does not parse, a JSON object, or a
\* JSON array of category names.
OutputFiles ==
    {[kind |-> "placeholder"], [kind |-> "missing"], Unreadable}
    \cup {[kind |-> "dict", data |-> g] : g \in OutGraphs}
    \cup {[kind |-> "list", data |-> <<c>>] : c \in OutCats}

\* --- process_file_pair --------------------------------------------------------

\* The files of the task's tree and the progress of the task.
StartState(fail) ==
    [input |-> EmptyDict, output |-> EmptyDict, dirs |-> [input |-> {}, output |-> {}],
     writes |-> 0, failAt |-> fail, raisedAt |-> "none"]

Raised(st) == st.raisedAt # "none"

\* input_save_dir.mkdir(parents=True, exist_ok=True)
Mkdir(st, tree, category) ==
    [st EXCEPT !.dirs[tree] = @ \cup {category}]

\* with open(dir / filename, 'w') as f: json.dump(content, f); the failAt-th open raises
WriteFile(st, tree, category, content) ==
    IF st.writes + 1 = st.failAt
    THEN [st EXCEPT !.writes = @ + 1, !.raisedAt = category]
    ELSE [st EXCEPT !.writes = @ + 1, ![tree] = Put(@, category, Json(content))]

\* for key in required_context_keys: if key in input_decisions: new_decisions[key] = ...
RECURSIVE BuildDecisions(_, _, _)
BuildDecisions(required_context_keys, input_decisions, new_decisions) ==
    IF required_context_keys = <<>> THEN new_decisions
    ELSE LET key == Head(required_context_keys)
         IN BuildDecisions(Tail(required_context_keys), input_decisions,
                           IF key \in DOMAIN input_decisions
                           THEN Put(new_decisions, key, input_decisions[key])
                           ELSE new_decisions)

\* Faulty variant: the whole graph is copied, whatever the policy lists.
NewDecisionsUnrestricted(required_context_keys, input_decisions) == input_decisions

\* new_decisions of one category, from an empty dict
NewDecisions(required_context_keys, input_decisions) ==
    BuildDecisions(required_context_keys, input_decisions, EmptyDict)

\* Faulty variant: the empty restricted graph is not skipped.
IsEmptyDecisionsNever(new_decisions) == FALSE

\* `if not new_decisions: continue`
IsEmptyDecisions(new_decisions) == DOMAIN new_decisions = {}

\* Faulty variant: meta is looked up one level too high and falls back to {}.
FinalInputStructureNoMeta(full_input_data, new_decisions) ==
    [mapping |-> full_input_data.mapping,
     data |-> [meta |-> EmptyDict, decisions |-> new_decisions]]

\* {"mapping": mapping_data, "data": {"meta": meta_data, "decisions": new_decisions}}
FinalInputStructure(full_input_data, new_decisions) ==
    [mapping |-> full_input_data.mapping,
     data |-> [meta |-> full_input_data.data.meta, decisions |-> new_decisions]]

\* `category in output_data`: key membership on a dict, element membership on a list
InOutput(output_data, category) ==
    IF output_data.kind = "dict" THEN category \in DOMAIN output_data.data
    ELSE category \in Range(output_data.data)

\* Faulty variant: the key alone makes the sample Positive.
HasLabelsAlways(output_data, category) == TRUE

\* `output_data.get(category)` is truthy: a non-empty list
HasLabels(output_data, category) == output_data.data[category] # <<>>

\* split_output_data = {category: output_data[category]}
SplitOutputData(output_data, category) ==
    [k \in {category} |-> output_data.data[category]]

\* Faulty variant: a Positive sample too is made only for a category of the window.
WritePositiveIfObserved(st, category, final_input_structure, output_data) ==
    IF category \in DOMAIN final_input_structure.data.decisions
    THEN LET st1 == WriteFile(st, "input", category, final_input_structure)
         IN IF Raised(st1) THEN st1
            ELSE WriteFile(Mkdir(st1, "output", category), "output", category,
                           SplitOutputData(output_data, category))
    ELSE st

\* The Positive branch: both files of the sample, the input window first.
WritePositive(st, category, final_input_structure, output_data) ==
    LET st1 == WriteFile(st, "input", category, final_input_structure)
    IN IF Raised(st1) THEN st1
       ELSE WriteFile(Mkdir(st1, "output", category), "output", category,
                      SplitOutputData(output_data, category))

\* Faulty variant: a negative is made from silence (the weak negative).
ObservedUpstreamAlways(input_decisions, category) == TRUE

\* `if category in input_decisions`: the category was observed upstream
ObservedUpstream(input_decisions, category) == category \in DOMAIN input_decisions

\* Faulty variant: the Negative branch writes an empty expected output as well.
WriteNegativeWithOutput(st, category, final_input_structure, input_decisions) ==
    IF ObservedUpstream(input_decisions, category)
    THEN LET st1 == WriteFile(st, "input", category, final_input_structure)
         IN IF Raised(st1) THEN st1
            ELSE WriteFile(Mkdir(st1, "output", category), "output", category, EmptyDict)
    ELSE st

\* The Negative branch: the window only if the original graph has the category.
WriteNegative(st, category, final_input_structure, input_decisions) ==
    IF ObservedUpstream(input_decisions, category)
    THEN WriteFile(st, "input", category, final_input_structure)
    ELSE st

\* One iteration of `for category in TARGET_CATEGORIES`.
ProcessCategory(cmap, st, category, full_input_data, output_data) ==
    IF ~HasKey(cmap, category) THEN st
    ELSE
    LET input_decisions == full_input_data.data.decisions
        new_decisions == NewDecisions(Get(cmap, category), input_decisions)
        final_input_structure == FinalInputStructure(full_input_data, new_decisions)
        st1 == Mkdir(st, "input", category)
    IN IF IsEmptyDecisions(new_decisions) THEN st
       ELSE IF InOutput(output_data, category)
       THEN IF output_data.kind # "dict"
            THEN [st1 EXCEPT !.raisedAt = category]        \* a list has no .get
            ELSE IF HasLabels(output_data, category)
                 THEN WritePositive(st1, category, final_input_structure, output_data)
                 ELSE WriteNegative(st1, category, final_input_structure, input_decisions)
       ELSE WriteNegative(st1, category, final_input_structure, input_decisions)

\* The loop; an exception leaves it at once.
RECURSIVE ProcessCategories(_, _, _, _, _)
ProcessCategories(cmap, st, categories, full_input_data, output_data) ==
    IF categories = <<>> \/ Raised(st) THEN st
    ELSE ProcessCategories(cmap,
                           ProcessCategory(cmap, st, Head(categories), full_input_data,
                                           output_data),
                           Tail(categories), full_input_data, output_data)

\* Lines 55-61: reading the two files raises (Path() exists and is a directory).
ReadRaises(in_file, out_file) ==
    \/ in_file.kind = "unreadable"
    \/ out_file.kind \in {"placeholder", "unreadable"}

\* output_data = {} unless the output path exists
OutputData(out_file) ==
    IF out_file.kind = "missing" THEN [kind |-> "dict", data |-> EmptyDict]
    ELSE out_file

\* The state process_file_pair leaves behind.
RunTask(cmap, in_file, out_file, fail) ==
    IF ReadRaises(in_file, out_file)
    THEN [StartState(fail) EXCEPT !.raisedAt = "read"]
    ELSE ProcessCategories(cmap, StartState(fail), TARGET_CATEGORIES(cmap),
                           in_file.content, OutputData(out_file))

ProcessFilePair ==
    /\ split_result = NoResult
    /\ LET st == RunTask(contextMap, input_file, output_file, failAt)
       IN /\ splitInput' = st.input
          /\ splitOutput' = st.output
          /\ splitDirs' = st.dirs
          /\ split_raisedAt' = st.raisedAt
          /\ split_result' = [status |-> IF Raised(st) THEN "ERROR" ELSE "SUCCESS"]
    /\ UNCHANGED <<contextMap, input_file, output_file, failAt>>
    /\ UNCHANGED <<verifyVars, cleanVars, selectorVars, poolVars>>

\* The other components at rest.
VerifyIdle == verify_task = "none" /\ verify_result = NoResult
CleanIdle == symbol_name = <<>> /\ cleaned = NoResult /\ recleaned = NoResult
SelectorIdle == selector_input = <<>> /\ selector_form = [form |-> "none"] /\ extracted = NoResult

PoolIdle ==
    /\ pool_driver = "none" /\ pool_pc = "idle"
    /\ pool_inputs = <<>> /\ pool_outputs = <<>>
    /\ pool_windows = EmptyDict
    /\ pool_tasks = <<>> /\ pool_results = <<>>
    /\ pool_summary = NoResult

InitSplit ==
    /\ contextMap \in {CONTEXT_MAP, SCENARIO_MAP}
    /\ input_file \in InputFiles
    /\ output_file \in OutputFiles
    /\ failAt \in 0..MaxFail
    /\ splitInput = EmptyDict
    /\ splitOutput = EmptyDict
    /\ splitDirs = [input |-> {}, output |-> {}]
    /\ split_result = NoResult
    /\ split_raisedAt = "none"
    /\ VerifyIdle
    /\ CleanIdle
    /\ SelectorIdle
    /\ PoolIdle

NextSplit == ProcessFilePair

SpecSplit == InitSplit /\ [][NextSplit]_vars

-----------------------------------------------------------------------------
(* Properties of the splitter.                                             *)

SplitDone == split_result # NoResult

InputReadable == input_file.kind = "json"

\* The original, pre-restriction decisions graph of the source file.
OrigDecisions == input_file.content.data.decisions

\* The label-stage output is a graph (a JSON object, or no file: the empty graph).
OutputIsGraph == output_file.kind \in {"dict", "missing"}

OutputHasKey(c) == output_file.kind = "dict" /\ c \in DOMAIN output_file.data

OutputNonEmpty(c) == OutputHasKey(c) /\ Len(output_file.data[c]) > 0

\* The categories ContextMap[c] lists.
ContextOf(c) == Range(Get(contextMap, c))

\* The window and the expected output persisted for category c.
Window(c) == splitInput[c].content
Expected(c) == splitOutput[c].content

\* A window of category c is persisted and the task did not fail on c.
Persisted(c) == c \in DOMAIN splitInput /\ split_raisedAt # c

NoFileFor(c) == c \notin DOMAIN splitInput /\ c \notin DOMAIN splitOutput

C2_KeysWithinContext ==
    SplitDone =>
        \A c \in DOMAIN splitInput :
            /\ HasKey(contextMap, c)
            /\ DOMAIN Window(c).data.decisions \subseteq ContextOf(c)

\* A window is persisted although the file has a category outside its context.
C2_Witness ==
    /\ SplitDone
    /\ \E c \in DOMAIN splitInput :
           /\ ~(DOMAIN OrigDecisions \subseteq ContextOf(c))
           /\ DOMAIN Window(c).data.decisions # {}

PolicyMiss(c) ==
    \/ ~HasKey(contextMap, c)
    \/ ContextOf(c) \cap DOMAIN OrigDecisions = {}

OutputReadable == output_file.kind \notin {"placeholder", "unreadable"}

\* C4: a policy miss produces no window and is no error: the task does not fail on
\* that category, a task with nothing but policy misses ends SUCCESS, and every
\* persisted window has a non-empty restricted graph.
C4_PolicyMissIsSilent ==
    SplitDone =>
        /\ InputReadable =>
               /\ \A c \in Categories :
                      PolicyMiss(c) => (NoFileFor(c) /\ split_raisedAt # c)
               /\ (OutputReadable /\ \A c \in Categories : PolicyMiss(c))
                      => split_result.status = "SUCCESS"
        /\ \A c \in DOMAIN splitInput : DOMAIN Window(c).data.decisions # {}

\* Both kinds of miss in one successful task: a category of the file without a
\* ContextMap entry, and a labelled target category with no context in the file.
C4_Witness ==
    /\ SplitDone /\ InputReadable
    /\ split_result.status = "SUCCESS"
    /\ \E c \in DOMAIN OrigDecisions : ~HasKey(contextMap, c) /\ NoFileFor(c)
    /\ \E c \in Categories :
           HasKey(contextMap, c) /\ PolicyMiss(c) /\ OutputNonEmpty(c) /\ NoFileFor(c)

\* The original graph restricted to the keys of ContextMap[c].
Restriction(c) ==
    [k \in DOMAIN OrigDecisions \cap ContextOf(c) |-> OrigDecisions[k]]

ScenarioAGraph ==
    [methods |-> <<SymbolOf("methods", 1)>>, classes |-> <<SymbolOf("classes", 1)>>]

\* Scenario A of the specification, run without an I/O failure.
ScenarioA ==
    /\ SplitDone /\ InputReadable
    /\ contextMap = SCENARIO_MAP
    /\ OrigDecisions = ScenarioAGraph
    /\ OutputIsGraph /\ ~OutputHasKey("methods")
    /\ split_raisedAt = "none"

\* C5: every persisted window holds the original graph restricted to the keys of
\* ContextMap[category], each list verbatim, with the file's mapping and meta; in
\* Scenario A exactly one Negative window, for methods, holds only the foo symbol.
C5_RestrictionVerbatim ==
    /\ SplitDone =>
           \A c \in DOMAIN splitInput :
               /\ Window(c).data.decisions = Restriction(c)
               /\ Window(c).mapping = input_file.content.mapping
               /\ Window(c).data.meta = input_file.content.data.meta
    /\ ScenarioA =>
           /\ DOMAIN splitInput = {"methods"}
           /\ DOMAIN splitOutput = {}
           /\ Window("methods").data.decisions
                  = [k \in {"methods"} |-> <<SymbolOf("methods", 1)>>]
           /\ SymbolOf("methods", 1).symbol_name = <<"f", "o", "o", "(", "x", ":", ")">>

\* Scenario A has run, and under the shipped policy a window of two categories
\* with two symbols in one of them is persisted.
C5_Witness ==
    /\ SplitDone
    /\ \/ ScenarioA /\ "methods" \in DOMAIN splitInput
       \/ /\ contextMap = CONTEXT_MAP
          /\ \E c \in DOMAIN splitInput :
                 /\ Cardinality(DOMAIN Window(c).data.decisions) >= 2
                 /\ \E k \in DOMAIN Window(c).data.decisions :
                        Len(Window(c).data.decisions[k]) >= 2

\* The three outcomes of a (file, category), read off the two source files.
PositiveSample(c) == ~PolicyMiss(c) /\ OutputNonEmpty(c)
NegativeSample(c) == ~PolicyMiss(c) /\ ~OutputNonEmpty(c) /\ c \in DOMAIN OrigDecisions
Discarded(c) == PolicyMiss(c) \/ (~OutputNonEmpty(c) /\ c \notin DOMAIN OrigDecisions)

\* C20: an expected-output file, and its category directory, exist only for a
\* Positive sample; a Negative sample of a task that succeeded has its window and
\* no expected-output file; a discarded (file, category) has neither file.
C20_OutputOnlyForPositive ==
    SplitDone =>
        /\ \A c \in DOMAIN splitOutput \cup splitDirs.output :
               InputReadable /\ PositiveSample(c)
        /\ (InputReadable /\ OutputIsGraph) =>
               \A c \in Categories :
                   /\ (NegativeSample(c) /\ split_result.status = "SUCCESS")
                          => (c \in DOMAIN splitInput /\ c \notin DOMAIN splitOutput)
                   /\ NegativeSample(c) => c \notin DOMAIN splitOutput \cup splitDirs.output
                   /\ Discarded(c) => NoFileFor(c)

\* One successful task has produced a Positive sample with both files, a Negative
\* sample with the window only, and nothing for a labelled category it discarded.
C20_Witness ==
    /\ SplitDone /\ InputReadable /\ OutputIsGraph
    /\ split_result.status = "SUCCESS"
    /\ \E c \in Categories :
           PositiveSample(c) /\ c \in DOMAIN splitInput /\ c \in DOMAIN splitOutput
    /\ \E c \in Categories :
           NegativeSample(c) /\ c \in DOMAIN splitInput /\ c \notin DOMAIN splitOutput
    /\ \E c \in Categories : Discarded(c) /\ OutputNonEmpty(c) /\ NoFileFor(c)

C24_PositiveNeverHalfWritten ==
    SplitDone =>
        \A c \in Categories :
            (OutputNonEmpty(c) /\ c \in DOMAIN splitInput) => c \in DOMAIN splitOutput

\* verify_dataset.py, get_non_empty_keys: the keys with a non-empty list
POSSIBLE_KEYS ==
    {"classes", "structs", "enums", "protocols", "extensions", "methods", "properties",
     "variables", "enumCases", "initializers", "deinitializers", "subscripts"}

get_non_empty_keys(data) == {key \in POSSIBLE_KEYS \cap DOMAIN data : data[key] # <<>>}

\* unexpected_keys = output_keys - input_keys: labelled categories the graph lacks
UnexpectedKeys ==
    IF InputReadable /\ output_file.kind = "dict"
    THEN get_non_empty_keys(output_file.data) \ get_non_empty_keys(OrigDecisions)
    ELSE {}

\* C25: a task that ends SUCCESS has persisted a Positive window, with its expected
\* output, for every category of the policy for which the label-stage output has a
\* non-empty list and of whose context categories at least one is a key of the
\* original graph, also when the category itself is no key of the original graph;
\* the restricted graph of that window then does not contain the category.
C25_PositiveWithoutTarget ==
    (SplitDone /\ split_result.status = "SUCCESS") =>
        \A c \in Categories :
            (/\ HasKey(contextMap, c)
             /\ OutputNonEmpty(c)
             /\ ContextOf(c) \cap DOMAIN OrigDecisions # {})
                => /\ c \in DOMAIN splitInput /\ c \in DOMAIN splitOutput
                   /\ Window(c).data.decisions = Restriction(c)
                   /\ Expected(c) = [k \in {c} |-> output_file.data[c]]
                   /\ c \in DOMAIN Window(c).data.decisions <=> c \in DOMAIN OrigDecisions

\* A Positive sample is persisted for a labelled category that the original graph
\* lacks (a category verify_dataset.py reports as unexpected): its window holds
\* context categories only.
C25_Witness ==
    /\ SplitDone /\ split_result.status = "SUCCESS"
    /\ \E c \in UnexpectedKeys :
           /\ c \notin DOMAIN OrigDecisions
           /\ c \in DOMAIN splitInput /\ c \in DOMAIN splitOutput
           /\ DOMAIN Window(c).data.decisions # {}
           /\ c \notin DOMAIN Window(c).data.decisions

\* C15 as claimed: a task that ends ERROR has written no window file, whichever
\* step failed.  The code violates it.
C15_NoPartialWindows ==
    (SplitDone /\ split_result.status = "ERROR") =>
        splitInput = EmptyDict /\ splitOutput = EmptyDict

-----------------------------------------------------------------------------
(* Name normalization: scripts/verify_outputs.py, clean_symbol_name        *)

\* Index of the first ch in s, 0 if there is none.
FirstIndex(s, ch) ==
    IF \E i \in 1..Len(s) : s[i] = ch
    THEN CHOOSE i \in 1..Len(s) : s[i] = ch /\ \A j \in 1..(i - 1) : s[j] # ch
    ELSE 0

\* Index of the last ch in s, 0 if there is none.
LastIndex(s, ch) ==
    IF \E i \in 1..Len(s) : s[i] = ch
    THEN CHOOSE i \in 1..Len(s) : s[i] = ch /\ \A j \in (i + 1)..Len(s) : s[j] # ch
    ELSE 0

\* re.sub(r'\(.*\)', '', s, flags=re.DOTALL): the one match runs from the first '('
\* that has a ')' after it, greedily, to the last ')' of the string.
RemoveSignature(s) ==
    LET open == FirstIndex(s, "(")
        close == LastIndex(s, ")")
    IN IF open > 0 /\ close > open
       THEN SubSeq(s, 1, open - 1) \o SubSeq(s, close + 1, Len(s))
       ELSE s

\* Faulty variant: one leading character is stripped, not the whole run.
LStripOne(s, ch) == IF s # <<>> /\ Head(s) = ch THEN Tail(s) ELSE s

\* s.lstrip(ch)
RECURSIVE LStrip(_, _)
LStrip(s, ch) == IF s # <<>> /\ Head(s) = ch THEN LStrip(Tail(s), ch) ELSE s

clean_symbol_name(name) == LStrip(RemoveSignature(name), ".")

\* The strings handed to clean_symbol_name in the model.
Alphabet == {"a", ".", "(", ")"}

Strings == UNION {[1..n -> Alphabet] : n \in 0..MaxLen}

CleanSymbolName ==
    /\ cleaned = NoResult
    /\ cleaned' = [status |-> "OK", value |-> clean_symbol_name(symbol_name)]
    /\ UNCHANGED <<symbol_name, recleaned>>
    /\ UNCHANGED <<splitVars, verifyVars, selectorVars, poolVars>>

\* The normalized name is normalized once more.
CleanAgain ==
    /\ cleaned # NoResult
    /\ recleaned = NoResult
    /\ recleaned' = [status |-> "OK", value |-> clean_symbol_name(cleaned.value)]
    /\ UNCHANGED <<symbol_name, cleaned>>
    /\ UNCHANGED <<splitVars, verifyVars, selectorVars, poolVars>>

\* No splitter task at hand.
SplitTaskIdle ==
    /\ contextMap = CONTEXT_MAP
    /\ input_file = Unreadable
    /\ output_file = [kind |-> "missing"]
    /\ failAt = 0
    /\ split_result = NoResult
    /\ split_raisedAt = "none"

\* The splitter at rest, its trees empty.
SplitIdle ==
    /\ SplitTaskIdle
    /\ splitInput = EmptyDict
    /\ splitOutput = EmptyDict
    /\ splitDirs = [input |-> {}, output |-> {}]

InitClean ==
    /\ symbol_name \in Strings
    /\ cleaned = NoResult
    /\ recleaned = NoResult
    /\ SplitIdle
    /\ VerifyIdle
    /\ SelectorIdle
    /\ PoolIdle

NextClean == CleanSymbolName \/ CleanAgain

SpecClean == InitClean /\ [][NextClean]_vars

-----------------------------------------------------------------------------
(* The verifier: scripts/verify_outputs.py                                 *)

\* s.split(ch)[0]
BeforeFirst(s, ch) ==
    IF FirstIndex(s, ch) = 0 THEN s ELSE SubSeq(s, 1, FirstIndex(s, ch) - 1)

\* s.split(ch)[-1]
AfterLast(s, ch) == SubSeq(s, LastIndex(s, ch) + 1, Len(s))

SelectorMarker == <<"#", "s", "e", "l", "e", "c", "t", "o", "r", "(">>

\* Index of the first occurrence of pattern in s, 0 if there is none.
Find(s, pattern) ==
    LET At(p) == /\ p + Len(pattern) - 1 <= Len(s)
                 /\ SubSeq(s, p, p + Len(pattern) - 1) = pattern
    IN IF \E p \in 1..Len(s) : At(p)
       THEN CHOOSE p \in 1..Len(s) : At(p) /\ \A q \in 1..(p - 1) : ~At(q)
       ELSE 0

\* extract_selector_name: the empty set stands for None.
\* re.search(r'#selector\((.*)\)', s): group 1 runs from behind the first marker up
\* to the last ')' of the string.
extract_selector_name(selector_str) ==
    LET start == Find(selector_str, SelectorMarker)
        close == LastIndex(selector_str, ")")
    IN IF start = 0 \/ close < start + Len(SelectorMarker)
       THEN {}
       ELSE LET full_selector ==
                    SubSeq(selector_str, start + Len(SelectorMarker), close - 1)
                method_part == AfterLast(full_selector, ".")
            IN {BeforeFirst(method_part, "(")}

ReferenceNames == {"references", "calls_out", "inherits", "conforms", "extension_of"}

\* Faulty variant: the call edges are left out of the privileged names.
KeysWithNamesNoCalls(mapping) ==
    {mapping[key] : key \in (ReferenceNames \ {"calls_out"}) \cap DOMAIN mapping}

\* {mapping.get(key) for key in [...] if mapping.get(key)}
KeysWithNames(mapping) == {mapping[key] : key \in ReferenceNames \cap DOMAIN mapping}

\* Faulty variant: a fixed key is parsed as selectors when the mapping names none.
SelectorKeyDefault(mapping) ==
    IF "selector_refs" \in DOMAIN mapping THEN {mapping["selector_refs"]} ELSE {"p9"}

\* mapping.get('selector_refs'): the empty set stands for None
SelectorKey(mapping) ==
    IF "selector_refs" \in DOMAIN mapping THEN {mapping["selector_refs"]} ELSE {}

\* str(item)
ToStr(item) == IF item.t = "str" THEN item.v ELSE <<"5">>

\* Faulty variant: the own name enters the universe as written, signature included.
OwnNameRaw(symbol) ==
    IF symbol.symbol_name # <<>> THEN {symbol.symbol_name} ELSE {}

\* name = symbol.get('symbol_name', ''); if name: add(clean_symbol_name(name))
OwnName(symbol) ==
    IF symbol.symbol_name # <<>> THEN {clean_symbol_name(symbol.symbol_name)} ELSE {}

\* What one feature of a symbol adds to all_input_symbols (lines 92-103).
FeatureNames(p_key, value, keys_with_names, selector_key) ==
    IF p_key \in keys_with_names
    THEN IF value.t = "list"
         THEN {clean_symbol_name(ToStr(item)) : item \in Range(value.v)}
         ELSE IF value.t = "str" THEN {clean_symbol_name(value.v)} ELSE {}
    ELSE IF p_key \in selector_key /\ value.t = "list"
         THEN UNION {{n \in extract_selector_name(item.v) : n # <<>>}
                     : item \in {x \in Range(value.v) : x.t = "str"}}
         ELSE {}

\* re.search on an entry that is no string raises TypeError.
FeatureRaises(p_key, value, keys_with_names, selector_key) ==
    /\ p_key \notin keys_with_names
    /\ p_key \in selector_key
    /\ value.t = "list"
    /\ \E item \in Range(value.v) : item.t # "str"

\* The symbols of all categories of a decisions graph.
SymbolsOf(decisions) == UNION {Range(decisions[c]) : c \in DOMAIN decisions}

\* all_input_symbols of lines 83-103
AllInputSymbols(input_full_data) ==
    LET mapping == input_full_data.mapping
        keys_with_names == KeysWithNames(mapping)
        selector_key == SelectorKey(mapping)
    IN UNION {OwnName(symbol)
                  \cup UNION {FeatureNames(p_key, symbol.input[p_key], keys_with_names,
                                           selector_key) : p_key \in DOMAIN symbol.input}
              : symbol \in SymbolsOf(input_full_data.data.decisions)}

\* The scan of lines 83-103 raises.
InputRaises(input_full_data) ==
    LET mapping == input_full_data.mapping
    IN \E symbol \in SymbolsOf(input_full_data.data.decisions) :
           \E p_key \in DOMAIN symbol.input :
               FeatureRaises(p_key, symbol.input[p_key], KeysWithNames(mapping),
                             SelectorKey(mapping))

\* all_output_symbols of lines 108-113
AllOutputSymbols(output_data) ==
    {clean_symbol_name(symbol.symbol_name)
         : symbol \in {x \in SymbolsOf(output_data) : x.symbol_name # <<>>}}

\* Faulty variant: the names of the window that the output lacks.
MissingSymbolsReversed(all_output_symbols, all_input_symbols) ==
    all_input_symbols \ all_output_symbols

\* missing_symbols = all_output_symbols - all_input_symbols
MissingSymbols(all_output_symbols, all_input_symbols) ==
    all_output_symbols \ all_input_symbols

\* Lines 115-120.
Verdict(all_output_symbols, all_input_symbols) ==
    IF all_output_symbols \subseteq all_input_symbols
    THEN [status |-> "PASS", missing |-> {}]
    ELSE [status |-> "FAIL",
          missing |-> MissingSymbols(all_output_symbols, all_input_symbols)]

ErrorResult == [status |-> "ERROR", missing |-> {}]

\* verify_pair on the pair of one category directory.  output_path.exists() of line 64
\* stands before the try: when stat() raises an OSError that does not mean "no such
\* file", the exception leaves the function ("RAISED": no tuple is returned).
VerifyResult(inputs, outputs, category) ==
    IF category \notin DOMAIN outputs
    THEN [status |-> "SKIPPED", missing |-> {}]
    ELSE IF outputs[category].kind = "unstattable" THEN [status |-> "RAISED", missing |-> {}]
    ELSE IF inputs[category].kind # "json" THEN ErrorResult
    ELSE IF InputRaises(inputs[category].content) THEN ErrorResult
    ELSE IF outputs[category].kind # "json" THEN ErrorResult
    ELSE Verdict(AllOutputSymbols(outputs[category].content),
                 AllInputSymbols(inputs[category].content))

VerifyPair ==
    /\ verify_task # "none"
    /\ verify_result = NoResult
    /\ verify_result' = VerifyResult(splitInput, splitOutput, verify_task)
    /\ UNCHANGED verify_task
    /\ UNCHANGED <<splitVars, cleanVars, selectorVars, poolVars>>

\* --- the pairs the verifier may meet ------------------------------------------

VerifyMappings ==
    {[calls_out |-> "p16", selector_refs |-> "p9"],
     EmptyDict,
     [references |-> "p9", selector_refs |-> "p9", inherits |-> "p3"],
     [inherits |-> "p3", conforms |-> "p16"]}

VerifySymbols ==
    {[symbol_name |-> <<"f", "o", "o", "(", "x", ":", ")">>, input |-> [p16 |-> List(<<Str(<<"b", "a", "z", "(", "_", ":", ")">>)>>)]],
     [symbol_name |-> <<".", "n", "o", "r", "t", "h">>, input |-> [p3 |-> Str(<<"p", "u", "b">>)]],
     [symbol_name |-> <<"B", "a", "r">>, input |-> [p9 |-> List(<<Str(<<"#", "s", "e", "l", "e", "c", "t", "o", "r", "(", "h", "a", "n", "d", "l", "e", "T", "a", "p", "(", "_", ":", ")", ")">>), Str(<<"x">>)>>)]],
     [symbol_name |-> <<>>, input |-> [p16 |-> Str(<<"q", "u", "x">>)]],
     [symbol_name |-> <<"q", "u", "x">>, input |-> [p9 |-> List(<<Num(5)>>)]],
     [symbol_name |-> <<"b", "a", "z">>, input |-> [p16 |-> List(<<Num(5)>>), p9 |-> Str(<<"#", "s", "e", "l", "e", "c", "t", "o", "r", "(", "o", "n", "T", "a", "p", ")">>)]]}

SymbolLists(pool) == UNION {[1..n -> pool] : n \in 0..MaxSyms}

\* Windows of one or two categories.
VerifyGraphs ==
    {[c \in {"methods"} |-> l] : l \in SymbolLists(VerifySymbols)}
    \cup {[c \in {"methods", "classes"} |->
              IF c = "methods" THEN l ELSE <<SymbolOf("classes", 1)>>]
          : l \in SymbolLists(VerifySymbols)}

VerifyInputFiles ==
    {Unreadable}
    \cup {Json([mapping |-> m, data |-> [meta |-> TheMeta, decisions |-> g]])
          : m \in VerifyMappings, g \in VerifyGraphs}

VerifyLabels ==
    {[symbol_name |-> n, reason |-> <<"r">>] : n \in {<<"f", "o", "o", "(", "x", ":", ")">>, <<".", "n", "o", "r", "t", "h">>, <<"q", "u", "x">>, <<"b", "a", "z", "(", "_", ":", ")">>, <<>>}}

VerifyOutputFiles ==
    {Unreadable, [kind |-> "unstattable"]}
    \cup {Json([c \in {"methods"} |-> l]) : l \in SymbolLists(VerifyLabels) \ {<<>>}}

InitVerify ==
    /\ verify_task = "methods"
    /\ verify_result = NoResult
    /\ splitInput \in {[c \in {"methods"} |-> f] : f \in VerifyInputFiles}
    /\ splitOutput \in {EmptyDict} \cup {[c \in {"methods"} |-> f] : f \in VerifyOutputFiles}
    /\ splitDirs = [input |-> {"methods"}, output |-> DOMAIN splitOutput]
    /\ SplitTaskIdle
    /\ CleanIdle
    /\ SelectorIdle
    /\ PoolIdle

NextVerify == VerifyPair

SpecVerify == InitVerify /\ [][NextVerify]_vars

-----------------------------------------------------------------------------
(* Properties of the verifier.                                             *)

VerifyDone == verify_result # NoResult

\* Both files of the pair exist and parse, and the scan of the window does not
\* raise (every selector_refs entry is a string).
PairReadable ==
    /\ verify_task \in DOMAIN splitInput /\ splitInput[verify_task].kind = "json"
    /\ verify_task \in DOMAIN splitOutput /\ splitOutput[verify_task].kind = "json"
    /\ ~InputRaises(splitInput[verify_task].content)

Universe == AllInputSymbols(splitInput[verify_task].content)
OutputNames == AllOutputSymbols(splitOutput[verify_task].content)

\* C6: on a readable pair the verifier returns PASS iff the normalized output
\* names are a subset of the name universe of the window, and otherwise FAIL with
\* exactly the names of the output that the universe lacks.
C6_PassIffContained ==
    (VerifyDone /\ PairReadable) =>
        /\ verify_result.status \in {"PASS", "FAIL"}
        /\ verify_result.status = "PASS" <=> OutputNames \subseteq Universe
        /\ verify_result.status = "FAIL"
               => verify_result.missing = {n \in OutputNames : n \notin Universe}
        /\ (OutputNames = {<<"q", "u", "x">>} /\ Universe = {<<"f", "o", "o">>, <<"b", "a", "z">>})
               => verify_result = [status |-> "FAIL", missing |-> {<<"q", "u", "x">>}]

\* Scenario D has been verified.
C6_Witness ==
    /\ VerifyDone /\ PairReadable
    /\ OutputNames = {<<"q", "u", "x">>} /\ Universe = {<<"f", "o", "o">>, <<"b", "a", "z">>}
    /\ verify_result.status = "FAIL"

\* The symbol_name values of the symbols of the window, as written.
VerbatimNames ==
    {symbol.symbol_name : symbol \in SymbolsOf(splitInput[verify_task].content.data.decisions)}

WindowReadable ==
    verify_task \in DOMAIN splitInput /\ splitInput[verify_task].kind = "json"

TheWindow == splitInput[verify_task].content

\* The abbreviated keys a mapping gives to the names that hold symbol names.
ReferenceKeys(mapping) ==
    {k \in Values(mapping) : \E n \in ReferenceNames \cap DOMAIN mapping : mapping[n] = k}

\* The features of the symbols of a window stored under one of the given keys.
FeaturesUnder(window, keys) ==
    {symbol.input[k] : <<symbol, k>> \in
         {sk \in SymbolsOf(window.data.decisions) \X keys : sk[2] \in DOMAIN sk[1].input}}

\* The mapping is a decode table: an abbreviated key has one semantic name.
DecodeTable(mapping) == SelectorKey(mapping) \cap ReferenceKeys(mapping) = {}

\* The window follows the data model: no abbreviated key stands for both a
\* reference name and selector_refs, a reference feature is a scalar, a string or a
\* sequence of strings, and the selector feature is a sequence of strings.
WellShaped(window) ==
    /\ DecodeTable(window.mapping)
    /\ \A value \in FeaturesUnder(window, ReferenceKeys(window.mapping)) :
           value.t = "list" => \A i \in 1..Len(value.v) : value.v[i].t = "str"
    /\ \A value \in FeaturesUnder(window, SelectorKey(window.mapping)) :
           value.t = "list" /\ \A i \in 1..Len(value.v) : value.v[i].t = "str"

\* The strings a set of feature values holds, single or as elements.
StringsOf(values) ==
    {value.v : value \in {x \in values : x.t = "str"}}
    \cup UNION {{item.v : item \in {x \in Range(value.v) : x.t = "str"}}
                : value \in {x \in values : x.t = "list"}}

\* The universe as the specification defines it; a fragment that is no string
\* (and a selector feature that is no sequence) contributes nothing.
SpecifiedUniverse(window) ==
    LET named == {symbol \in SymbolsOf(window.data.decisions) : symbol.symbol_name # <<>>}
        referenceStrings ==
            StringsOf(FeaturesUnder(window, ReferenceKeys(window.mapping)))
        selectorStrings ==
            StringsOf({value \in FeaturesUnder(window, SelectorKey(window.mapping))
                          : value.t = "list"})
    IN {clean_symbol_name(symbol.symbol_name) : symbol \in named}
       \cup {clean_symbol_name(x) : x \in referenceStrings}
       \cup (UNION {extract_selector_name(x) : x \in selectorStrings} \ {<<>>})

\* Scenario B: a symbol whose calls_out feature, mapped to p16, holds [baz(_:)].
ScenarioB ==
    /\ WindowReadable
    /\ "calls_out" \in DOMAIN TheWindow.mapping /\ TheWindow.mapping["calls_out"] = "p16"
    /\ \E symbol \in SymbolsOf(TheWindow.data.decisions) :
           /\ "p16" \in DOMAIN symbol.input
           /\ symbol.input["p16"] = List(<<Str(<<"b", "a", "z", "(", "_", ":", ")">>)>>)

\* C11: on a window of the data model the universe the verifier computes is exactly
\* the normalized own names, the normalized strings of the features under the keys
\* the mapping gives to references, calls_out, inherits, conforms and extension_of,
\* and the tokens of the selector_refs entries; no other feature contributes; the
\* verdict is the containment in that set; in Scenario B baz is in the universe.
C11_UniverseExact ==
    (VerifyDone /\ WindowReadable /\ WellShaped(TheWindow)) =>
        /\ Universe = SpecifiedUniverse(TheWindow)
        /\ ScenarioB => <<"b", "a", "z">> \in Universe
        /\ PairReadable =>
               (verify_result.status = "PASS" <=> OutputNames \subseteq SpecifiedUniverse(TheWindow))

\* Scenario B has been verified on a window that also has a feature no privileged
\* name is mapped to, and the output names baz, which only the call edge provides.
C11_Witness ==
    /\ VerifyDone /\ PairReadable /\ WellShaped(TheWindow) /\ ScenarioB
    /\ \E symbol \in SymbolsOf(TheWindow.data.decisions) :
           DOMAIN symbol.input \cap (ReferenceKeys(TheWindow.mapping)
                                        \cup SelectorKey(TheWindow.mapping)) = {}
    /\ OutputNames = {<<"b", "a", "z">>}
    /\ verify_result.status = "PASS"

\* The expected-output file of the pair parses.
OutputParses ==
    verify_task \in DOMAIN splitOutput /\ splitOutput[verify_task].kind = "json"

\* C13 as claimed: whatever the shape of the fragments of the window, the resolver
\* yields a set to which a malformed fragment contributes nothing, and the verifier
\* does not end in ERROR when both files parse.  The code violates it.
C13_ResolverTotal ==
    (VerifyDone /\ WindowReadable /\ OutputParses /\ DecodeTable(TheWindow.mapping)) =>
        /\ verify_result.status \in {"PASS", "FAIL"}
        /\ Universe = SpecifiedUniverse(TheWindow)

\* The privileged semantic names for which the mapping of the window has no key.
MissingNames(mapping) == (ReferenceNames \cup {"selector_refs"}) \ DOMAIN mapping

\* The normalized own names of the symbols of a window.
OwnNamesOf(window) ==
    {clean_symbol_name(symbol.symbol_name)
         : symbol \in {x \in SymbolsOf(window.data.decisions) : x.symbol_name # <<>>}}

\* The window without the features stored under keys that no privileged name of
\* its mapping is mapped to.
WithoutUnmapped(window) ==
    LET keep == ReferenceKeys(window.mapping) \cup SelectorKey(window.mapping)
        Strip(symbol) ==
            [symbol EXCEPT !.input = [k \in DOMAIN symbol.input \cap keep |-> symbol.input[k]]]
        decisions == window.data.decisions
    IN [window EXCEPT !.data.decisions =
            [c \in DOMAIN decisions |->
                 [i \in 1..Len(decisions[c]) |-> Strip(decisions[c][i])]]]

\* C14: when the mapping has no key for a privileged name, the extraction of that
\* kind is skipped silently: the features under unmapped keys change nothing in the
\* universe, the own names and the strings of the kinds that are mapped are still
\* in it, a mapping without selector_refs never leads to ERROR on a pair that
\* parses, and an ERROR is always due to an entry under the mapped selector key.
C14_MissingKeySkipped ==
    (VerifyDone /\ WindowReadable /\ OutputParses /\ MissingNames(TheWindow.mapping) # {}) =>
        /\ Universe = AllInputSymbols(WithoutUnmapped(TheWindow))
        /\ OwnNamesOf(TheWindow) \subseteq Universe
        /\ {clean_symbol_name(x)
               : x \in StringsOf(FeaturesUnder(TheWindow, ReferenceKeys(TheWindow.mapping)))}
               \subseteq Universe
        /\ MissingNames(TheWindow.mapping) = ReferenceNames \cup {"selector_refs"}
               => Universe = OwnNamesOf(TheWindow)
        /\ "selector_refs" \notin DOMAIN TheWindow.mapping
               => /\ verify_result.status \in {"PASS", "FAIL"}
                  /\ verify_result.status = "PASS" <=> OutputNames \subseteq Universe
        /\ verify_result.status = "ERROR"
               => \E value \in FeaturesUnder(TheWindow, SelectorKey(TheWindow.mapping)) :
                      value.t = "list" /\ \E i \in 1..Len(value.v) : value.v[i].t # "str"

\* A pair is verified under a mapping that names neither selector_refs nor
\* calls_out, on a window that has a selector list with an entry that is no string
\* and a feature of a kind that is mapped; the verdict is FAIL, not ERROR.
C14_Witness ==
    /\ VerifyDone /\ WindowReadable /\ OutputParses
    /\ {"selector_refs", "calls_out"} \subseteq MissingNames(TheWindow.mapping)
    /\ "inherits" \in DOMAIN TheWindow.mapping
    /\ \E symbol \in SymbolsOf(TheWindow.data.decisions) :
           "p9" \in DOMAIN symbol.input /\ symbol.input["p9"] = List(<<Num(5)>>)
    /\ <<"p", "u", "b">> \in Universe
    /\ verify_result.status = "FAIL"

\* The windows with one more symbol in a category of the window, or with one more
\* category, under the same mapping: every larger graph is reached by such steps.
Widenings(window) ==
    LET decisions == window.data.decisions
    IN {[window EXCEPT !.data.decisions[c] = Append(@, symbol)]
            : c \in DOMAIN decisions, symbol \in VerifySymbols}
       \cup {[window EXCEPT !.data.decisions = Put(decisions, "enums", <<symbol>>)]
                 : symbol \in VerifySymbols}

\* verify_pair on the pair at hand with another window in place of its window.
ResultWith(window) ==
    VerifyResult([c \in {verify_task} |-> Json(window)], splitOutput, verify_task)

\* Nothing added to the graph of a window removes a name from the universe, and no
\* pair that passed is reported FAIL on the larger graph.
C29_UniverseGrows ==
    (VerifyDone /\ PairReadable) =>
        \A wider \in Widenings(TheWindow) :
            /\ Universe \subseteq AllInputSymbols(wider)
            /\ verify_result.status = "PASS" => ResultWith(wider).status # "FAIL"

\* C29 as claimed: a pair that passes with the graph of its window passes, under the
\* same mapping and expected output, with every graph that has the categories and
\* symbols of that graph and more.  The code violates it.
C29_MonotoneVerdict ==
    (VerifyDone /\ PairReadable /\ verify_result.status = "PASS") =>
        \A wider \in Widenings(TheWindow) : ResultWith(wider).status = "PASS"

-----------------------------------------------------------------------------
(* Selector parsing: scripts/verify_outputs.py, extract_selector_name      *)

\* s1 + s2 + ... of a sequence of strings
RECURSIVE Concat(_)
Concat(parts) == IF parts = <<>> THEN <<>> ELSE Head(parts) \o Concat(Tail(parts))

\* Identifiers of method references and of receiver path components.
SelectorIdentifiers == {<<"h", "a", "n", "d", "l", "e", "T", "a", "p">>, <<"o", "n", "T", "a", "p">>}
ReceiverComponents == {<<"s", "e", "l", "f">>, <<"v", "c">>}

\* Argument lists: none, empty, labels, a dotted argument, a nested call, both.
ArgumentLists ==
    {<<>>,
     <<"(", ")">>,
     <<"(", "_", ":", ")">>,
     <<"(", "_", ":", "w", "i", "t", "h", ":", ")">>,
     <<"(", "a", ".", "b", ")">>,
     <<"(", "x", "(", "y", ")", ")">>,
     <<"(", "x", "(", "a", ".", "b", ")", ")">>}

ReceiverPaths == UNION {[1..n -> ReceiverComponents] : n \in 0..MaxPath}

SelectorForms ==
    {[form |-> "selector", receiver |-> r, identifier |-> i, arguments |-> a]
         : r \in ReceiverPaths, i \in SelectorIdentifiers, a \in ArgumentLists}

\* '#selector(' + receiver path + identifier + argument list + ')'
SelectorText(f) ==
    SelectorMarker
    \o Concat([k \in 1..Len(f.receiver) |-> f.receiver[k] \o <<".">>])
    \o f.identifier \o f.arguments \o <<")">>

\* Strings that are no selector expression.
OtherTexts ==
    {<<>>, <<"o", "n", "T", "a", "p">>, SelectorMarker \o <<"o", "n", "T", "a", "p">>,
     <<"s", "e", "l", "e", "c", "t", "o", "r", "(", "f", ")">>}

ExtractSelectorName ==
    /\ extracted = NoResult
    /\ extracted' = [status |-> "OK", value |-> extract_selector_name(selector_input)]
    /\ UNCHANGED <<selector_input, selector_form>>
    /\ UNCHANGED <<splitVars, verifyVars, cleanVars, poolVars>>

InitSelector ==
    /\ \/ /\ selector_form \in SelectorForms
          /\ selector_input = SelectorText(selector_form)
       \/ /\ selector_form = [form |-> "other"]
          /\ selector_input \in OtherTexts
    /\ extracted = NoResult
    /\ SplitIdle
    /\ VerifyIdle
    /\ CleanIdle
    /\ PoolIdle

NextSelector == ExtractSelectorName

SpecSelector == InitSelector /\ [][NextSelector]_vars

\* C12 as claimed: for '#selector(' + receiver path + identifier + argument list
\* + ')' the result is exactly the identifier, with no parenthesis in it, whatever
\* the argument list holds.  The code violates it.
C12_BareIdentifier ==
    (extracted # NoResult /\ selector_form.form = "selector") =>
        /\ extracted.value = {selector_form.identifier}
        /\ \A name \in extracted.value : ~HasChar(name, "(") /\ ~HasChar(name, ")")

-----------------------------------------------------------------------------
(* The drivers: main of scripts/split_labels_by_category.py and of         *)
(* scripts/verify_outputs.py, with their worker pools.                     *)
(*                                                                         *)
(* A file of the window trees is addressed by <<tree, model directory,     *)
(* category directory, base name>>: its name is input_<base>_<category>    *)
(* .json in the input tree and output_<base>_<category>.json in the output *)
(* tree, so inside one category directory the name is given by the base.   *)

InputPrefix == <<"i", "n", "p", "u", "t", "_">>
OutputPrefix == <<"o", "u", "t", "p", "u", "t", "_">>
JsonSuffix == <<".", "j", "s", "o", "n">>

\* s.startswith(prefix)
StartsWith(s, prefix) == Len(s) >= Len(prefix) /\ SubSeq(s, 1, Len(prefix)) = prefix

\* pattern occurs in s at index p
OccursAt(s, pattern, p) ==
    p >= 1 /\ p + Len(pattern) - 1 <= Len(s) /\ SubSeq(s, p, p + Len(pattern) - 1) = pattern

Min(S) == CHOOSE x \in S : \A y \in S : x <= y
Max(S) == CHOOSE x \in S : \A y \in S : x >= y

\* re.search(prefix + r'(.+)\.json', filename): group 1 of the leftmost match, the
\* group taken greedily up to the last '.json'; the empty set stands for no match.
FileKey(filename, prefix) ==
    LET Ends(p) == {q \in 1..Len(filename) :
                        OccursAt(filename, JsonSuffix, q) /\ q >= p + Len(prefix) + 1}
        starts == {p \in 1..Len(filename) : OccursAt(filename, prefix, p) /\ Ends(p) # {}}
    IN IF starts = {} THEN {}
       ELSE {SubSeq(filename, Min(starts) + Len(prefix), Max(Ends(Min(starts))) - 1)}

\* Path(filename).stem: the name without its last suffix
Stem(filename) ==
    LET dot == LastIndex(filename, ".")
    IN IF dot > 1 /\ dot < Len(filename) THEN SubSeq(filename, 1, dot - 1) ELSE filename

\* base_name = re.sub(r'^(input_|output_)', '', input_file_path.stem)
base_name(filename) ==
    LET stem == Stem(filename)
    IN IF StartsWith(stem, InputPrefix) THEN SubSeq(stem, Len(InputPrefix) + 1, Len(stem))
       ELSE IF StartsWith(stem, OutputPrefix)
            THEN SubSeq(stem, Len(OutputPrefix) + 1, Len(stem))
            ELSE stem

MODEL_SUB_DIRS == <<"claude_generated", "gemini_generated", "gpt_generated">>

\* --- the source directories the splitter may meet ------------------------------

\* A source file of INPUT_ROOT_DIR/<sub_dir>; its meta names the file it came from.
SourceFile(sub_dir, filename) ==
    [sub_dir |-> sub_dir, filename |-> filename,
     file |-> Json([mapping |-> TheMapping,
                    data |-> [meta |-> [file |-> filename],
                              decisions |-> [methods |-> SymbolList("methods", 1)]]])]

\* The entries INPUT_ROOT_DIR may hold, in the order os.listdir reports them.
SourceCandidates ==
    <<SourceFile("claude_generated", <<"i", "n", "p", "u", "t", "_", "a", ".", "j", "s", "o", "n">>),
      SourceFile("gemini_generated", <<"i", "n", "p", "u", "t", "_", "a", ".", "j", "s", "o", "n">>),
      SourceFile("claude_generated", <<"m", "y", "_", "i", "n", "p", "u", "t", "_", "c", ".", "j", "s", "o", "n">>),
      SourceFile("claude_generated", <<"i", "n", "p", "u", "t", "_", "m", "y", "_", "i", "n", "p", "u", "t", "_", "c", ".", "j", "s", "o", "n">>),
      SourceFile("claude_generated", <<"n", "o", "t", "e", "s", ".", "t", "x", "t">>)>>

\* A label output of OUTPUT_ROOT_DIR/<sub_dir>.
LabelFile(sub_dir, filename, file) == [sub_dir |-> sub_dir, filename |-> filename, file |-> file]

LabelCandidates ==
    <<LabelFile("claude_generated", <<"o", "u", "t", "p", "u", "t", "_", "a", ".", "j", "s", "o", "n">>,
                [kind |-> "dict", data |-> [methods |-> LabelList("methods", 1)]]),
      LabelFile("gemini_generated", <<"o", "u", "t", "p", "u", "t", "_", "a", ".", "j", "s", "o", "n">>, Unreadable),
      LabelFile("claude_generated", <<"o", "u", "t", "p", "u", "t", "_", "c", ".", "j", "s", "o", "n">>, [kind |-> "dict", data |-> EmptyDict]),
      LabelFile("claude_generated", <<"o", "u", "t", "p", "u", "t", "_", "m", "y", "_", "i", "n", "p", "u", "t", "_", "c", ".", "j", "s", "o", "n">>,
                [kind |-> "dict", data |-> EmptyDict])>>

\* The subsequence of s at the indices of I, in order.
RECURSIVE Pick(_, _)
Pick(s, I) ==
    IF s = <<>> THEN <<>>
    ELSE (IF 1 \in I THEN <<Head(s)>> ELSE <<>>)
         \o Pick(Tail(s), {i - 1 : i \in I \ {1}})

Listings(candidates) == {Pick(candidates, I) : I \in SUBSET (1..Len(candidates))}

\* --- main of the splitter --------------------------------------------------------

\* d[key] = value on a dict that keeps insertion order
PutOrdered(d, key, value) ==
    IF \E i \in 1..Len(d) : d[i][1] = key
    THEN [i \in 1..Len(d) |-> IF d[i][1] = key THEN <<key, value>> ELSE d[i]]
    ELSE Append(d, <<key, value>>)

\* `for sub_dir in MODEL_SUB_DIRS: for filename in os.listdir(...)`
BySubDir(listing) ==
    LET In(d) == LET Test(entry) == entry.sub_dir = d IN SelectSeq(listing, Test)
    IN Concat([k \in 1..Len(MODEL_SUB_DIRS) |-> In(MODEL_SUB_DIRS[k])])

\* input_files_map / output_files_map: the files whose name matches, by (key, sub_dir)
RECURSIVE FilesMap(_, _, _)
FilesMap(listing, prefix, files_map) ==
    IF listing = <<>> THEN files_map
    ELSE LET entry == Head(listing)
             match == FileKey(entry.filename, prefix)
         IN FilesMap(Tail(listing), prefix,
                     IF match = {} THEN files_map
                     ELSE PutOrdered(files_map,
                                     <<CHOOSE key \in match : TRUE, entry.sub_dir>>, entry))

\* Faulty variant: a path that does not exist stands in for the missing label output.
TasksMissingDefault(inputs, outputs) ==
    LET input_files_map == FilesMap(BySubDir(inputs), InputPrefix, <<>>)
        output_files_map == FilesMap(BySubDir(outputs), OutputPrefix, <<>>)
    IN [i \in 1..Len(input_files_map) |->
            LET key == input_files_map[i][1]
            IN [input_path |-> input_files_map[i][2],
                output_file |-> IF HasKey(output_files_map, key)
                                THEN Get(output_files_map, key).file
                                ELSE [kind |-> "missing"],
                model_dir |-> key[2]]]

\* tasks of lines 141-143; Path() stands in for a label output that did not match
Tasks(inputs, outputs) ==
    LET input_files_map == FilesMap(BySubDir(inputs), InputPrefix, <<>>)
        output_files_map == FilesMap(BySubDir(outputs), OutputPrefix, <<>>)
    IN [i \in 1..Len(input_files_map) |->
            LET key == input_files_map[i][1]
            IN [input_path |-> input_files_map[i][2],
                output_file |-> IF HasKey(output_files_map, key)
                                THEN Get(output_files_map, key).file
                                ELSE [kind |-> "placeholder"],
                model_dir |-> key[2]]]

\* SPLIT_INPUT_DIR / model_dir / category / f"input_{base_name}_{category}.json"
WindowPath(tree, task, category) ==
    <<tree, task.model_dir, category, base_name(task.input_path.filename)>>

\* What process_file_pair leaves behind for one task of the pool.
TaskRun(task) == RunTask(CONTEXT_MAP, task.input_path.file, task.output_file, 0)

\* The files one task writes, by path.
TaskWrites(task) ==
    LET st == TaskRun(task)
        paths == {WindowPath("input", task, c) : c \in DOMAIN st.input}
                 \cup {WindowPath("output", task, c) : c \in DOMAIN st.output}
    IN [p \in paths |-> IF p[1] = "input" THEN st.input[p[3]] ELSE st.output[p[3]]]

\* The record process_file_pair returns (lines 108, 111).
TaskResult(task) ==
    [model |-> task.model_dir,
     status |-> IF Raised(TaskRun(task)) THEN "ERROR" ELSE "SUCCESS",
     message |-> <<"'">> \o task.input_path.filename \o <<"'">>]

\* The tree after a task has written its files.  Two workers that write one path
\* at the same time leave either content, or a mix of both that does not parse.
Written(tree, writes, torn) ==
    [p \in DOMAIN tree \cup DOMAIN writes |->
         IF p \notin DOMAIN writes THEN tree[p]
         ELSE IF torn /\ p \in DOMAIN tree THEN Unreadable
         ELSE writes[p]]

\* --- the summaries of the two drivers ----------------------------------------------

\* The characters of the directory names and status words that enter a message.
Chars(word) ==
    CASE word = "claude_generated" -> <<"c", "l", "a", "u", "d", "e", "_", "g", "e", "n", "e", "r", "a", "t", "e", "d">>
      [] word = "gemini_generated" -> <<"g", "e", "m", "i", "n", "i", "_", "g", "e", "n", "e", "r", "a", "t", "e", "d">>
      [] word = "gpt_generated" -> <<"g", "p", "t", "_", "g", "e", "n", "e", "r", "a", "t", "e", "d">>
      [] word = "PASS" -> <<"P", "A", "S", "S">>
      [] word = "FAIL" -> <<"F", "A", "I", "L">>
      [] word = "SKIPPED" -> <<"S", "K", "I", "P", "P", "E", "D">>
      [] word = "ERROR" -> <<"E", "R", "R", "O", "R">>
      [] word = "SUCCESS" -> <<"S", "U", "C", "C", "E", "S", "S">>
      [] word = "classes" -> <<"c", "l", "a", "s", "s", "e", "s">>
      [] word = "deinitializers" -> <<"d", "e", "i", "n", "i", "t", "i", "a", "l", "i", "z", "e", "r", "s">>
      [] word = "enumCases" -> <<"e", "n", "u", "m", "C", "a", "s", "e", "s">>
      [] word = "enums" -> <<"e", "n", "u", "m", "s">>
      [] word = "extensions" -> <<"e", "x", "t", "e", "n", "s", "i", "o", "n", "s">>
      [] word = "initializers" -> <<"i", "n", "i", "t", "i", "a", "l", "i", "z", "e", "r", "s">>
      [] word = "methods" -> <<"m", "e", "t", "h", "o", "d", "s">>
      [] word = "properties" -> <<"p", "r", "o", "p", "e", "r", "t", "i", "e", "s">>
      [] word = "protocols" -> <<"p", "r", "o", "t", "o", "c", "o", "l", "s">>
      [] word = "structs" -> <<"s", "t", "r", "u", "c", "t", "s">>
      [] word = "subscripts" -> <<"s", "u", "b", "s", "c", "r", "i", "p", "t", "s">>
      [] word = "variables" -> <<"v", "a", "r", "i", "a", "b", "l", "e", "s">>

\* The characters of the messages, in the order of their code points.
CodePoints ==
    <<" ", "'", "(", ")", ".", "/", "0", "1", "2", "3", "4", "5", "6", "7", "8", "9",
      ":", "A", "B", "C", "D", "E", "F", "G", "H", "I", "J", "K", "L", "M", "N", "O",
      "P", "Q", "R", "S", "T", "U", "V", "W", "X", "Y", "Z", "[", "]", "_", "a", "b",
      "c", "d", "e", "f", "g", "h", "i", "j", "k", "l", "m", "n", "o", "p", "q", "r",
      "s", "t", "u", "v", "w", "x", "y", "z">>

\* ord(ch), as far as the order goes
Ord(ch) == CHOOSE k \in 1..Len(CodePoints) : CodePoints[k] = ch

\* a <= b on str
StrLeq(a, b) ==
    LET differ == {k \in 1..Min({Len(a), Len(b)}) : a[k] # b[k]}
    IN IF differ = {} THEN Len(a) <= Len(b)
       ELSE Ord(a[Min(differ)]) < Ord(b[Min(differ)])

\* Faulty variant: the details are printed in the order of the records.
Unsorted(details) == details

\* sorted(details)
RECURSIVE Sorted(_)
Sorted(details) ==
    IF details = <<>> THEN <<>>
    ELSE LET rest == Sorted(Tail(details))
             before == {k \in 1..Len(rest) : ~StrLeq(Head(details), rest[k])}
             at == IF before = {} THEN 0 ELSE Max(before)
         IN SubSeq(rest, 1, at) \o <<Head(details)>> \o SubSeq(rest, at + 1, Len(rest))

\* sum of the values of a dict of numbers
RECURSIVE SumValues(_)
SumValues(d) ==
    IF DOMAIN d = {} THEN 0
    ELSE LET k == CHOOSE x \in DOMAIN d : TRUE
         IN d[k] + SumValues([x \in DOMAIN d \ {k} |-> d[x]])

\* file_summary of lines 157-164 (and summary of verify_outputs.py lines 151-155)
Tally(results, statuses) ==
    [m \in {results[i].model : i \in 1..Len(results)} |->
         [s \in statuses |->
              Cardinality({i \in 1..Len(results) :
                               results[i].model = m /\ results[i].status = s})]]

\* f"[{model}] {res['message']}" (split line 167)
SplitDetail(res) == <<"[">> \o Chars(res.model) \o <<"]", " ">> \o res.message

\* Lines 157-180 of the splitter's main: the tallies, the grand total, the sorted
\* details of the ERROR records.
SplitSummaryOf(results) ==
    LET file_summary == Tally(results, {"SUCCESS", "ERROR"})
        IsError(res) == res.status = "ERROR"
        errors == SelectSeq(results, IsError)
        error_details == [k \in 1..Len(errors) |-> SplitDetail(errors[k])]
    IN [file_summary |-> file_summary,
        grand_total_files |-> SumValues([m \in DOMAIN file_summary |->
                                            SumValues(file_summary[m])]),
        error_details |-> Sorted(error_details)]

AllReturned(results) == \A i \in 1..Len(results) : results[i] # NoResult

\* The exception of a task left the function: no record came back.
Escaped == [status |-> "RAISED"]

SomeEscaped(results) == \E i \in 1..Len(results) : results[i] = Escaped

\* setup_directories, the scan of the two roots, and the start of the pool; with no
\* task main prints a notice and returns (lines 145-147).
SplitMain ==
    /\ pool_driver = "split" /\ pool_pc = "start"
    /\ pool_windows' = EmptyDict
    /\ pool_tasks' = Tasks(pool_inputs, pool_outputs)
    /\ pool_results' = [i \in 1..Len(pool_tasks') |-> NoResult]
    /\ pool_pc' = IF pool_tasks' = <<>> THEN "done" ELSE "map"
    /\ UNCHANGED <<pool_driver, pool_inputs, pool_outputs, pool_summary>>
    /\ UNCHANGED <<splitVars, verifyVars, cleanVars, selectorVars>>

\* A worker runs process_file_pair on one task.
SplitTask(i) ==
    /\ pool_driver = "split" /\ pool_pc = "map"
    /\ pool_results[i] = NoResult
    /\ \E torn \in BOOLEAN :
           /\ torn => DOMAIN TaskWrites(pool_tasks[i]) \cap DOMAIN pool_windows # {}
           /\ pool_windows' = Written(pool_windows, TaskWrites(pool_tasks[i]), torn)
    /\ pool_results' = [pool_results EXCEPT ![i] = TaskResult(pool_tasks[i])]
    /\ UNCHANGED <<pool_driver, pool_inputs, pool_outputs, pool_pc, pool_tasks, pool_summary>>
    /\ UNCHANGED <<splitVars, verifyVars, cleanVars, selectorVars>>

\* pool.map has returned every record: the summary of lines 153-189.
SplitSummary ==
    /\ pool_driver = "split" /\ pool_pc = "map"
    /\ AllReturned(pool_results) /\ ~SomeEscaped(pool_results)
    /\ pool_summary' = SplitSummaryOf(pool_results)
    /\ pool_pc' = "done"
    /\ UNCHANGED <<pool_driver, pool_inputs, pool_outputs, pool_windows, pool_tasks,
                   pool_results>>
    /\ UNCHANGED <<splitVars, verifyVars, cleanVars, selectorVars>>

\* --- main of the verifier --------------------------------------------------------

MODEL_FOLDERS == <<"claude_generated", "gemini_generated">>

CATEGORY_FOLDERS ==
    <<"classes", "deinitializers", "enumCases", "enums", "extensions", "initializers",
      "methods", "properties", "protocols", "structs", "subscripts", "variables">>

\* s.replace(old, new)
RECURSIVE ReplaceAll(_, _, _)
ReplaceAll(s, old, new) ==
    IF s = <<>> THEN <<>>
    ELSE IF StartsWith(s, old)
         THEN new \o ReplaceAll(SubSeq(s, Len(old) + 1, Len(s)), old, new)
         ELSE <<Head(s)>> \o ReplaceAll(Tail(s), old, new)

\* input_file.name.replace('input_', 'output_'), as the base of the sibling: every
\* 'input_' of input_<base>_<category>.json is replaced, not only the leading one.
OutputBase(base) ==
    LET replaced == ReplaceAll(base \o <<"_">>, InputPrefix, OutputPrefix)
    IN SubSeq(replaced, 1, Len(replaced) - 1)

\* The order in which glob reports the files of one directory.
RECURSIVE SetToSeq(_)
SetToSeq(S) ==
    IF S = {} THEN <<>>
    ELSE LET x == CHOOSE y \in S : TRUE IN <<x>> \o SetToSeq(S \ {x})

\* tasks of lines 131-140
VerifyTasks(tree) ==
    LET In(m, c) ==
            SetToSeq({[input_path |-> p, output_path |-> <<"output", m, c, OutputBase(p[4])>>]
                          : p \in {q \in DOMAIN tree : q[1] = "input" /\ q[2] = m /\ q[3] = c}})
    IN Concat([k \in 1..Len(MODEL_FOLDERS) |->
                   Concat([j \in 1..Len(CATEGORY_FOLDERS) |->
                               In(MODEL_FOLDERS[k], CATEGORY_FOLDERS[j])])])

\* context_str of lines 54-62, for the window input_<base>_<category>.json
ContextStr(input_path) ==
    LET category == Chars(input_path[3])
        stem == InputPrefix \o input_path[4] \o <<"_">> \o category
        stem_base == ReplaceAll(stem, InputPrefix, <<>>)
        pattern_name == ReplaceAll(stem_base, <<"_">> \o category, <<>>)
    IN <<"(">> \o pattern_name \o <<"/">> \o category \o <<")">>

\* verify_pair on one task of the pool: the tuple it returns, or Escaped.
VerifyTaskResult(tree, task) ==
    LET category == task.input_path[3]
        inputs == [c \in {category} |-> tree[task.input_path]]
        outputs == IF task.output_path \in DOMAIN tree
                   THEN [c \in {category} |-> tree[task.output_path]]
                   ELSE EmptyDict
        result == VerifyResult(inputs, outputs, category)
    IN IF result.status = "RAISED" THEN Escaped
       ELSE [model |-> task.input_path[2], status |-> result.status,
             missing |-> result.missing, message |-> ContextStr(task.input_path)]

\* f"[{model}] {status}: {message}" (line 156)
VerifyDetail(res) ==
    <<"[">> \o Chars(res.model) \o <<"]", " ">> \o Chars(res.status) \o <<":", " ">>
    \o res.message

\* Lines 151-183 of the verifier's main: the tallies, the grand total over the
\* models of MODEL_FOLDERS, the sorted details of the FAIL and ERROR tuples.
VerifySummaryOf(results) ==
    LET summary == Tally(results, {"PASS", "FAIL", "SKIPPED", "ERROR"})
        IsFailed(res) == res.status \in {"FAIL", "ERROR"}
        failed == SelectSeq(results, IsFailed)
        failed_details == [k \in 1..Len(failed) |-> VerifyDetail(failed[k])]
    IN [summary |-> summary,
        grand_total |-> SumValues([m \in Range(MODEL_FOLDERS) \cap DOMAIN summary |->
                                      SumValues(summary[m])]),
        failed_details |-> Sorted(failed_details)]

VerifyMain ==
    /\ pool_driver = "verify" /\ pool_pc = "start"
    /\ pool_tasks' = VerifyTasks(pool_windows)
    /\ pool_results' = [i \in 1..Len(pool_tasks') |-> NoResult]
    /\ pool_pc' = IF pool_tasks' = <<>> THEN "done" ELSE "map"
    /\ UNCHANGED <<pool_driver, pool_inputs, pool_outputs, pool_windows, pool_summary>>
    /\ UNCHANGED <<splitVars, verifyVars, cleanVars, selectorVars>>

\* Faulty variant: the worker merges its tuple into the tallies as it finishes.
VerifyTaskMerging(i) ==
    /\ pool_driver = "verify" /\ pool_pc = "map"
    /\ pool_results[i] = NoResult
    /\ pool_results' = [pool_results EXCEPT ![i] = VerifyTaskResult(pool_windows, pool_tasks[i])]
    /\ pool_summary' =
           LET Returned(res) == res \notin {NoResult, Escaped}
           IN VerifySummaryOf(SelectSeq(pool_results', Returned))
    /\ UNCHANGED <<pool_driver, pool_inputs, pool_outputs, pool_windows, pool_pc, pool_tasks>>
    /\ UNCHANGED <<splitVars, verifyVars, cleanVars, selectorVars>>

\* A worker runs verify_pair on one task.
VerifyTask(i) ==
    /\ pool_driver = "verify" /\ pool_pc = "map"
    /\ pool_results[i] = NoResult
    /\ pool_results' = [pool_results EXCEPT ![i] = VerifyTaskResult(pool_windows, pool_tasks[i])]
    /\ UNCHANGED <<pool_driver, pool_inputs, pool_outputs, pool_windows, pool_pc, pool_tasks,
                   pool_summary>>
    /\ UNCHANGED <<splitVars, verifyVars, cleanVars, selectorVars>>

\* pool.map has returned every tuple: the summary of lines 151-183, the per-model
\* lines for the models of MODEL_FOLDERS.
VerifySummary ==
    /\ pool_driver = "verify" /\ pool_pc = "map"
    /\ AllReturned(pool_results) /\ ~SomeEscaped(pool_results)
    /\ pool_summary' = VerifySummaryOf(pool_results)
    /\ pool_pc' = "done"
    /\ UNCHANGED <<pool_driver, pool_inputs, pool_outputs, pool_windows, pool_tasks,
                   pool_results>>
    /\ UNCHANGED <<splitVars, verifyVars, cleanVars, selectorVars>>

\* pool.map re-raises in main the exception that left a task, once every task has
\* run; main ends with the traceback, before the summary.
PoolAbort ==
    /\ pool_pc = "map"
    /\ AllReturned(pool_results) /\ SomeEscaped(pool_results)
    /\ pool_pc' = "aborted"
    /\ UNCHANGED <<pool_driver, pool_inputs, pool_outputs, pool_windows, pool_tasks,
                   pool_results, pool_summary>>
    /\ UNCHANGED <<splitVars, verifyVars, cleanVars, selectorVars>>

\* --- the window trees the verifier may meet --------------------------------------

WindowOf(category) ==
    Json([mapping |-> TheMapping,
          data |-> [meta |-> TheMeta,
                    decisions |-> [c \in {category} |-> SymbolList(category, 1)]]])

\* A pair of the trees: its window and, if any, what is at the sibling's path.  A
\* path whose stat() raises OSError (a name longer than the file system allows,
\* a directory that may not be searched) is "unstattable".
PairOf(model, category, base, window, output) ==
    [model |-> model, category |-> category, base |-> base, window |-> window,
     output |-> output]

PairCandidates ==
    <<PairOf("claude_generated", "methods", <<"a">>, WindowOf("methods"),
             Json([methods |-> LabelList("methods", 1)])),
      PairOf("claude_generated", "classes", <<"a">>, WindowOf("classes"), [kind |-> "none"]),
      PairOf("gemini_generated", "methods", <<"a">>, Unreadable,
             Json([methods |-> LabelList("methods", 1)])),
      PairOf("claude_generated", "methods", <<"b">>, WindowOf("methods"),
             Json([methods |-> <<[symbol_name |-> <<"q", "u", "x">>, reason |-> <<"r">>]>>])),
      PairOf("gemini_generated", "methods", <<"l", "o", "n", "g">>, WindowOf("methods"),
             [kind |-> "unstattable"]),
      PairOf("gpt_generated", "methods", <<"a">>, WindowOf("methods"),
             Json([methods |-> LabelList("methods", 1)]))>>

TreeOf(pairs) ==
    LET InPath(e) == <<"input", e.model, e.category, e.base>>
        OutPath(e) == <<"output", e.model, e.category, e.base>>
        ins == {InPath(pairs[k]) : k \in 1..Len(pairs)}
        outs == {OutPath(pairs[k]) : k \in {j \in 1..Len(pairs) : pairs[j].output.kind # "none"}}
        EntryAt(p) == pairs[CHOOSE k \in 1..Len(pairs) :
                                 p[2] = pairs[k].model /\ p[3] = pairs[k].category
                                 /\ p[4] = pairs[k].base]
    IN [p \in ins \cup outs |->
            IF p[1] = "input" THEN EntryAt(p).window ELSE EntryAt(p).output]

\* Windows an earlier run of the splitter left behind.
StaleTree == TreeOf(<<PairCandidates[1]>>)

InitPool ==
    /\ \/ /\ pool_driver = "split"
          /\ pool_inputs \in {l \in Listings(SourceCandidates) : Len(l) <= MaxTasks}
          /\ pool_outputs \in Listings(LabelCandidates)
          /\ pool_windows \in {EmptyDict, StaleTree}
       \/ /\ pool_driver = "verify"
          /\ pool_inputs = <<>> /\ pool_outputs = <<>>
          /\ pool_windows \in {TreeOf(l) : l \in {x \in Listings(PairCandidates)
                                                      : Len(x) <= MaxTasks}}
    /\ pool_pc = "start"
    /\ pool_tasks = <<>> /\ pool_results = <<>>
    /\ pool_summary = NoResult
    /\ SplitIdle
    /\ VerifyIdle
    /\ CleanIdle
    /\ SelectorIdle

NextPool ==
    \/ SplitMain
    \/ \E i \in 1..Len(pool_tasks) : SplitTask(i)
    \/ SplitSummary
    \/ VerifyMain
    \/ \E i \in 1..Len(pool_tasks) : VerifyTask(i)
    \/ VerifySummary
    \/ PoolAbort

SpecPool == InitPool /\ [][NextPool]_vars

-----------------------------------------------------------------------------
(* The two scripts in a row: split_labels_by_category.py, then              *)
(* verify_outputs.py on the trees it has left.                             *)

\* The source files and label outputs of the runs, none with a name of another.
PipelineSources ==
    <<SourceFile("claude_generated", <<"i", "n", "p", "u", "t", "_", "a", ".", "j", "s", "o", "n">>),
      SourceFile("claude_generated", <<"i", "n", "p", "u", "t", "_", "b", ".", "j", "s", "o", "n">>),
      SourceFile("claude_generated", <<"i", "n", "p", "u", "t", "_", "m", "y", "_", "i", "n", "p", "u", "t", "_", "c", ".", "j", "s", "o", "n">>),
      SourceFile("gemini_generated", <<"i", "n", "p", "u", "t", "_", "a", ".", "j", "s", "o", "n">>),
      SourceFile("gpt_generated", <<"i", "n", "p", "u", "t", "_", "a", ".", "j", "s", "o", "n">>)>>

PipelineLabels ==
    <<LabelFile("claude_generated", <<"o", "u", "t", "p", "u", "t", "_", "a", ".", "j", "s", "o", "n">>,
                [kind |-> "dict", data |-> [methods |-> LabelList("methods", 1)]]),
      LabelFile("claude_generated", <<"o", "u", "t", "p", "u", "t", "_", "b", ".", "j", "s", "o", "n">>, [kind |-> "dict", data |-> EmptyDict]),
      LabelFile("claude_generated", <<"o", "u", "t", "p", "u", "t", "_", "m", "y", "_", "i", "n", "p", "u", "t", "_", "c", ".", "j", "s", "o", "n">>,
                [kind |-> "dict", data |-> [methods |-> LabelList("methods", 1)]]),
      LabelFile("gemini_generated", <<"o", "u", "t", "p", "u", "t", "_", "a", ".", "j", "s", "o", "n">>,
                [kind |-> "dict",
                 data |-> [methods |-> <<[symbol_name |-> <<"q", "u", "x">>, reason |-> <<"r">>]>>]]),
      LabelFile("gpt_generated", <<"o", "u", "t", "p", "u", "t", "_", "a", ".", "j", "s", "o", "n">>,
                [kind |-> "dict", data |-> [methods |-> LabelList("methods", 1)]])>>

\* The splitter has ended; verify_outputs.py is started on the trees it left.
StartVerify ==
    /\ pool_driver = "split" /\ pool_pc = "done"
    /\ pool_driver' = "verify"
    /\ pool_pc' = "start"
    /\ pool_tasks' = <<>>
    /\ pool_results' = <<>>
    /\ pool_summary' = NoResult
    /\ UNCHANGED <<pool_inputs, pool_outputs, pool_windows>>
    /\ UNCHANGED <<splitVars, verifyVars, cleanVars, selectorVars>>

InitPipeline ==
    /\ pool_driver = "split"
    /\ pool_inputs \in {l \in Listings(PipelineSources) : Len(l) <= MaxTasks}
    /\ pool_outputs \in Listings(PipelineLabels)
    /\ pool_windows = EmptyDict
    /\ pool_pc = "start"
    /\ pool_tasks = <<>> /\ pool_results = <<>>
    /\ pool_summary = NoResult
    /\ SplitIdle
    /\ VerifyIdle
    /\ CleanIdle
    /\ SelectorIdle

\* No task of these runs meets a path that cannot be stat'ed: pool.map returns.
NextPipeline ==
    \/ SplitMain
    \/ \E i \in 1..Len(pool_tasks) : SplitTask(i)
    \/ SplitSummary
    \/ StartVerify
    \/ VerifyMain
    \/ \E i \in 1..Len(pool_tasks) : VerifyTask(i)
    \/ VerifySummary

SpecPipeline == InitPipeline /\ [][NextPipeline]_vars

-----------------------------------------------------------------------------
(* Properties of the drivers.                                              *)

\* C16 as claimed: an exception raised while a task is processed comes back as
\* that task's ERROR record: every task that has run has handed back one record,
\* which is the record of that task alone, the pool is never aborted, and at the
\* end every task has its record.  The code violates it.
C16_EveryTaskOneResult ==
    /\ pool_pc # "aborted"
    /\ \A i \in 1..Len(pool_results) :
           pool_results[i] # NoResult =>
               /\ pool_results[i] # Escaped
               /\ pool_driver = "split" => pool_results[i] = TaskResult(pool_tasks[i])
               /\ pool_driver = "verify"
                      => pool_results[i] = VerifyTaskResult(pool_windows, pool_tasks[i])
    /\ pool_pc = "done" => AllReturned(pool_results)

\* main has ended: it returned, or an exception ended it.
MainEnded == pool_pc \in {"done", "aborted"}

\* C17 as claimed: a driver that was started on a set of tasks does not end before
\* it has emitted its summary, whichever tasks fail.  The code violates it.
C17_SummaryEmitted == (MainEnded /\ pool_tasks # <<>>) => pool_summary # NoResult

\* C18 as claimed: two distinct tasks of the splitter have distinct window paths
\* in every category and never write the same file.  The code violates it.
C18_DistinctPaths ==
    (pool_driver = "split" /\ pool_pc \in {"map", "done"}) =>
        \A i, j \in 1..Len(pool_tasks) :
            i # j =>
                /\ \A c \in Categories :
                       WindowPath("input", pool_tasks[i], c)
                           # WindowPath("input", pool_tasks[j], c)
                /\ DOMAIN TaskWrites(pool_tasks[i]) \cap DOMAIN TaskWrites(pool_tasks[j]) = {}

\* The files of the tasks, one task after the other.
RECURSIVE WindowsOfTasks(_, _)
WindowsOfTasks(tasks, tree) ==
    IF tasks = <<>> THEN tree
    ELSE WindowsOfTasks(Tail(tasks), Written(tree, TaskWrites(Head(tasks)), FALSE))

\* C19 as claimed: the window trees a finished run leaves are given by the source
\* files, the label outputs and the policy alone, whatever the order in which the
\* workers ran and whatever an earlier run left.  The code violates it.
C19_RerunSameWindows ==
    (pool_driver = "split" /\ pool_pc = "done") =>
        pool_windows = WindowsOfTasks(Tasks(pool_inputs, pool_outputs), EmptyDict)

\* No label output of the listing matches the input file of the task: none in the
\* same model directory has the key of the input file.
Unmatched(task) ==
    ~\E k \in 1..Len(pool_outputs) :
          /\ pool_outputs[k].sub_dir = task.model_dir
          /\ FileKey(pool_outputs[k].filename, OutputPrefix) # {}
          /\ FileKey(pool_outputs[k].filename, OutputPrefix)
                 = FileKey(task.input_path.filename, InputPrefix)

\* The decisions graph of the input file of a task.
TaskDecisions(task) == task.input_path.file.content.data.decisions

\* C26: the task of an input file without a matched label output is built with the
\* placeholder path, ends ERROR, and writes no file; when main has ended, a window
\* at one of its paths was written by another task.
C26_UnmatchedIsError ==
    pool_driver = "split" =>
        \A i \in 1..Len(pool_tasks) :
            Unmatched(pool_tasks[i]) =>
                /\ pool_tasks[i].output_file = [kind |-> "placeholder"]
                /\ TaskWrites(pool_tasks[i]) = EmptyDict
                /\ pool_results[i] # NoResult =>
                       /\ pool_results[i] # Escaped
                       /\ pool_results[i].status = "ERROR"
                /\ pool_pc = "done" =>
                       \A tree \in {"input", "output"}, c \in Categories :
                           WindowPath(tree, pool_tasks[i], c) \in DOMAIN pool_windows
                               => \E j \in 1..Len(pool_tasks) :
                                      /\ j # i
                                      /\ WindowPath(tree, pool_tasks[i], c)
                                             \in DOMAIN TaskWrites(pool_tasks[j])

\* A finished run in which an input file with a methods category had no matched
\* label output and ended ERROR with no window at its paths, beside a task that
\* succeeded.
C26_Witness ==
    /\ pool_driver = "split" /\ pool_pc = "done"
    /\ \E i, j \in 1..Len(pool_tasks) :
           /\ Unmatched(pool_tasks[i])
           /\ "methods" \in DOMAIN TaskDecisions(pool_tasks[i])
           /\ pool_results[i].status = "ERROR"
           /\ WindowPath("input", pool_tasks[i], "methods") \notin DOMAIN pool_windows
           /\ pool_results[j].status = "SUCCESS"

\* The windows of the input tree, and the expected output the splitter wrote
\* beside a window (output_<base>_<category>.json in the output tree).
WindowPaths(tree) == {p \in DOMAIN tree : p[1] = "input"}
SiblingPath(p) == <<"output", p[2], p[3], p[4]>>

\* The verifier tasks that examine a window.
Examiners(p) == {i \in 1..Len(pool_tasks) : pool_tasks[i].input_path = p}

\* C27 as claimed: when the verifier has ended on the trees the splitter left, every
\* window of every model directory was examined by exactly one task; the task
\* reported SKIPPED iff the splitter wrote no expected output beside the window;
\* the expected output of a Positive window is the file the task looked up, and the
\* task reported PASS, FAIL or ERROR.  The code violates it.
C27_EveryWindowVerified ==
    (pool_driver = "verify" /\ pool_pc = "done") =>
        \A p \in WindowPaths(pool_windows) :
            /\ Cardinality(Examiners(p)) = 1
            /\ \A i \in Examiners(p) :
                   /\ pool_results[i].status = "SKIPPED"
                          <=> SiblingPath(p) \notin DOMAIN pool_windows
                   /\ SiblingPath(p) \in DOMAIN pool_windows
                          => /\ pool_tasks[i].output_path = SiblingPath(p)
                             /\ pool_results[i].status \in {"PASS", "FAIL", "ERROR"}

\* Some pair of the batch came back FAIL or ERROR.
SomeFailed(results) ==
    \E i \in 1..Len(results) :
        results[i] \notin {NoResult, Escaped} /\ results[i].status \in {"FAIL", "ERROR"}

\* No step of the verifier creates, changes or deletes a file of the window trees.
C21_ReadOnly == [][pool_driver = "verify" => pool_windows' = pool_windows]_vars

\* C21 as claimed: the verifier leaves the window trees as it found them, and when a
\* pair comes back FAIL or ERROR every other pair of the batch is still verified and
\* counted: main ends with a record for every pair and a summary whose total is the
\* number of pairs.  The code violates it.
C21_ReadOnlyNonHalting ==
    (pool_driver = "verify" /\ MainEnded /\ SomeFailed(pool_results)) =>
        /\ pool_tasks = VerifyTasks(pool_windows)
        /\ AllReturned(pool_results) /\ ~SomeEscaped(pool_results)
        /\ pool_summary # NoResult
        /\ pool_summary.grand_total = Len(pool_tasks)

\* What the driver at hand makes of a list of records.
SummaryOf(results) ==
    IF pool_driver = "split" THEN SplitSummaryOf(results) ELSE VerifySummaryOf(results)

\* C22: the tallies are made only after every task has finished: while main has not
\* started the pool, while any task has not handed back its record, and in the steps
\* of the workers there is no tally; the tallies, once made, are those of the
\* complete list of records.
C22_MergeAfterAll ==
    /\ pool_pc \in {"start", "map", "aborted"} => pool_summary = NoResult
    /\ pool_summary # NoResult =>
           /\ pool_pc = "done"
           /\ AllReturned(pool_results) /\ ~SomeEscaped(pool_results)
           /\ pool_summary = SummaryOf(pool_results)

\* A batch of three tasks of two models and with two outcomes has been merged.
C22_Witness ==
    /\ pool_summary # NoResult
    /\ Len(pool_results) >= 3
    /\ Cardinality({pool_results[i].model : i \in 1..Len(pool_results)}) >= 2
    /\ Cardinality({pool_results[i].status : i \in 1..Len(pool_results)}) >= 2

\* The orders in which n records can stand in the list.
Orders(n) == {f \in [1..n -> 1..n] : Range(f) = 1..n}

\* The tallies and the details of the summary at hand, and its printed total.
TalliesOf(summary) ==
    IF pool_driver = "split" THEN summary.file_summary ELSE summary.summary
DetailsOf(summary) ==
    IF pool_driver = "split" THEN summary.error_details ELSE summary.failed_details
TotalOf(summary) ==
    IF pool_driver = "split" THEN summary.grand_total_files ELSE summary.grand_total

\* The statuses a record of the driver at hand can have, and those with a detail.
StatusesOf(driver) ==
    IF driver = "split" THEN {"SUCCESS", "ERROR"} ELSE {"PASS", "FAIL", "SKIPPED", "ERROR"}
DetailedOf(driver) == IF driver = "split" THEN {"ERROR"} ELSE {"FAIL", "ERROR"}

\* C28: once the tallies are made, their sum over all models and statuses is the
\* number of submitted tasks and is the printed grand total, every record has one
\* of the statuses of its driver, the detail list has one entry for each record
\* that is FAIL or ERROR, and the records in any other order give the same
\* tallies, the same total and the same sorted detail list.
C28_TalliesCountEveryTask ==
    pool_summary # NoResult =>
        LET tallies == TalliesOf(pool_summary)
            n == Len(pool_results)
        IN /\ n = Len(pool_tasks)
           /\ SumValues([m \in DOMAIN tallies |-> SumValues(tallies[m])]) = n
           /\ TotalOf(pool_summary) = n
           /\ \A i \in 1..n : pool_results[i].status \in StatusesOf(pool_driver)
           /\ \A m \in DOMAIN tallies :
                  \A st \in DOMAIN tallies[m] :
                      tallies[m][st] = Cardinality({i \in 1..n : /\ pool_results[i].model = m
                                                                  /\ pool_results[i].status = st})
           /\ Len(DetailsOf(pool_summary))
                  = Cardinality({i \in 1..n : pool_results[i].status \in DetailedOf(pool_driver)})
           /\ \A f \in Orders(n) :
                  SummaryOf([i \in 1..n |-> pool_results[f[i]]]) = pool_summary

\* The tallies of three records were made, two of them with a detail and one
\* without, and in another order of the records the details stand in another order
\* before they are sorted.
C28_Witness ==
    /\ pool_summary # NoResult
    /\ Len(pool_results) >= 3
    /\ Len(DetailsOf(pool_summary)) >= 2
    /\ \E i \in 1..Len(pool_results) : pool_results[i].status \notin DetailedOf(pool_driver)
    /\ \E f \in Orders(Len(pool_results)) :
           LET other == [i \in 1..Len(pool_results) |-> pool_results[f[i]]]
               WithDetail(res) == res.status \in DetailedOf(pool_driver)
           IN /\ other # pool_results
              /\ SelectSeq(other, WithDetail) # SelectSeq(pool_results, WithDetail)

-----------------------------------------------------------------------------
(* The earlier splitter: scripts/backup_no_split/split_labels_by_category.py *)
(*                                                                         *)
(* One validated file holds the instruction, the input with the original   *)
(* symbols, and the output with the thinking text and the labels.  The     *)
(* files of a group are kept under the name of the group.                  *)

\* CONTEXT_MAP of the earlier splitter
BACKUP_CONTEXT_MAP ==
    << <<"methods", <<"methods", "initializers", "deinitializers", "subscripts",
                      "variables">> >>,
       <<"properties", <<"properties">> >>,
       <<"variables", <<"variables">> >>,
       <<"initializers", <<"classes", "structs", "enums", "protocols", "extensions",
                           "initializers">> >>,
       <<"deinitializers", <<"classes", "structs", "enums", "protocols", "extensions",
                             "deinitializers">> >>,
       <<"subscripts", <<"classes", "structs", "enums", "protocols", "extensions",
                         "subscripts">> >>,
       <<"enumCases", <<"enums", "enumCases">> >>,
       <<"classes", <<"classes", "protocols", "structs">> >>,
       <<"structs", <<"structs", "protocols", "classes">> >>,
       <<"enums", <<"enums", "protocols", "enumCases", "classes">> >>,
       <<"protocols", <<"protocols">> >>,
       <<"extensions", <<"extensions", "classes", "structs", "enums", "protocols">> >>,
       <<"typealiases", <<"typealiases", "classes", "structs", "enums", "protocols",
                          "extensions">> >> >>

\* name.split('(')[0]
normalize_symbol_name(name) == BeforeFirst(name, "(")

\* The thinking text: its blocks, each with the symbol name of its heading.
ThinkingBlock(name, text) == [symbol_name |-> name, block |-> text]

ThinkingTexts ==
    {<<>>,
     <<ThinkingBlock(BaseName("methods"), <<"m">>), ThinkingBlock(BaseName("classes"), <<"c">>),
       ThinkingBlock(<<"f", "o", "o">>, <<"n">>)>>}

\* parse_thinking_block: the blocks by normalized name, a later block of a name
\* in place of the earlier one
RECURSIVE parse_thinking_block(_, _)
parse_thinking_block(blocks, reasoning_map) ==
    IF blocks = <<>> THEN reasoning_map
    ELSE parse_thinking_block(Tail(blocks),
                              PutOrdered(reasoning_map,
                                         normalize_symbol_name(Head(blocks).symbol_name),
                                         Head(blocks).block))

\* A validated file.
ValidatedFile(symbols, thinking, labels) ==
    Json([instruction |-> <<"i">>,
          input |-> [symbol_data_for_analysis |-> symbols],
          output |-> [thinking |-> thinking, json_output |-> labels]])

BackupFiles ==
    {Unreadable}
    \cup {ValidatedFile(g, t, o) : g \in Graphs, t \in ThinkingTexts, o \in OutGraphs}

\* The files and the progress of the task, with created_files_count and the groups
\* at which the `continue` of line 118 was taken.
BackupStart(fail) ==
    [input |-> EmptyDict, output |-> EmptyDict, dirs |-> [input |-> {}, output |-> {}],
     writes |-> 0, failAt |-> fail, raisedAt |-> "none", created |-> 0, discarded |-> {}]

\* created_files_count += 1 after a write that did not raise
Counted(st) == IF Raised(st) THEN st ELSE [st EXCEPT !.created = @ + 1]

\* grouped_output_symbols of lines 109-111
GroupedOutputSymbols(json_output, group_name) ==
    IF group_name \in DOMAIN json_output /\ json_output[group_name] # <<>>
    THEN [k \in {group_name} |-> json_output[group_name]]
    ELSE EmptyDict

\* Faulty variant: every source category must be a key of the original symbols.
IsHighConfidenceNegativeAll(is_positive_sample, source_categories, original_symbols) ==
    /\ ~is_positive_sample
    /\ \A cat \in Range(source_categories) : cat \in DOMAIN original_symbols

\* is_high_confidence_negative of lines 114-115
IsHighConfidenceNegative(is_positive_sample, source_categories, original_symbols) ==
    /\ ~is_positive_sample
    /\ \E cat \in Range(source_categories) : cat \in DOMAIN original_symbols

\* One iteration of `for group_name, source_categories in CONTEXT_MAP.items()`.
BackupGroup(st, group_name, source_categories, data) ==
    LET original_input == data.input
        original_symbols == original_input.symbol_data_for_analysis
        json_output == data.output.json_output
        grouped_input_symbols == BuildDecisions(source_categories, original_symbols, EmptyDict)
        new_input_obj ==
            [original_input EXCEPT !.symbol_data_for_analysis = grouped_input_symbols]
        current_group_symbol_names ==
            {normalize_symbol_name(symbol.symbol_name)
                 : symbol \in SymbolsOf(grouped_input_symbols)}
        reasoning_map == parse_thinking_block(data.output.thinking, <<>>)
        InGroup(entry) == entry[1] \in current_group_symbol_names
        kept == SelectSeq(reasoning_map, InGroup)
        filtered_thinking == [k \in 1..Len(kept) |-> kept[k][2]]
        grouped_output_symbols == GroupedOutputSymbols(json_output, group_name)
        is_positive_sample == DOMAIN grouped_output_symbols # {}
        is_high_confidence_negative ==
            IsHighConfidenceNegative(is_positive_sample, source_categories, original_symbols)
        final_input_record ==
            [instruction |-> data.instruction, input |-> new_input_obj, output |-> <<>>]
        final_output_record ==
            [thinking |-> filtered_thinking, json_output |-> grouped_output_symbols]
        st1 == Counted(WriteFile(Mkdir(st, "input", group_name), "input", group_name,
                                 final_input_record))
    IN IF DOMAIN grouped_input_symbols = {} THEN st
       ELSE IF ~(is_positive_sample \/ is_high_confidence_negative)
            THEN [st EXCEPT !.discarded = @ \cup {group_name}]
       ELSE IF Raised(st1) \/ ~is_positive_sample THEN st1
       ELSE Counted(WriteFile(Mkdir(st1, "output", group_name), "output", group_name,
                              final_output_record))

\* The loop; an exception leaves it at once.
RECURSIVE BackupGroups(_, _, _)
BackupGroups(st, groups, data) ==
    IF groups = <<>> \/ Raised(st) THEN st
    ELSE BackupGroups(BackupGroup(st, Head(groups)[1], Head(groups)[2], data),
                      Tail(groups), data)

\* The state split_single_file leaves behind.
BackupRun(cmap, file, fail) ==
    IF file.kind = "unreadable" THEN [BackupStart(fail) EXCEPT !.raisedAt = "read"]
    ELSE BackupGroups(BackupStart(fail), cmap, file.content)

\* split_single_file: it returns the count of the files it made, or a message.
SplitSingleFile ==
    /\ split_result = NoResult
    /\ LET st == BackupRun(contextMap, input_file, failAt)
       IN /\ splitInput' = st.input
          /\ splitOutput' = st.output
          /\ splitDirs' = st.dirs
          /\ split_raisedAt' = st.raisedAt
          /\ split_result' =
                 IF Raised(st) THEN [status |-> "ERROR", discarded |-> st.discarded]
                 ELSE [status |-> "COUNT", created_files_count |-> st.created,
                       discarded |-> st.discarded]
    /\ UNCHANGED <<contextMap, input_file, output_file, failAt>>
    /\ UNCHANGED <<verifyVars, cleanVars, selectorVars, poolVars>>

InitBackup ==
    /\ contextMap = BACKUP_CONTEXT_MAP
    /\ input_file \in BackupFiles
    /\ output_file = [kind |-> "missing"]
    /\ failAt \in 0..MaxFail
    /\ splitInput = EmptyDict
    /\ splitOutput = EmptyDict
    /\ splitDirs = [input |-> {}, output |-> {}]
    /\ split_result = NoResult
    /\ split_raisedAt = "none"
    /\ VerifyIdle
    /\ CleanIdle
    /\ SelectorIdle
    /\ PoolIdle

NextBackup == SplitSingleFile

SpecBackup == InitBackup /\ [][NextBackup]_vars

\* The original symbols and the labels of the validated file.
OriginalSymbols == input_file.content.input.symbol_data_for_analysis
JsonOutput == input_file.content.output.json_output

\* The group has labels: it is a Positive sample.
GroupPositive(group_name) == DOMAIN GroupedOutputSymbols(JsonOutput, group_name) # {}

\* C30: a group that is not Positive has its record only if one of its source
\* categories is a key of the original symbols; the `continue` of line 118 is never
\* taken; and when the file was split without an error, every group that is not
\* Positive and has a source category among the original symbols has its Negative
\* record (the input record, no output record), also when the group itself is no
\* key of the original symbols.
C30_BackupNeverDiscards ==
    (SplitDone /\ InputReadable) =>
        /\ split_result.discarded = {}
        /\ \A group_name \in DOMAIN splitInput :
               (split_raisedAt # group_name /\ group_name \notin DOMAIN splitOutput)
                   => /\ ~GroupPositive(group_name)
                      /\ ContextOf(group_name) \cap DOMAIN OriginalSymbols # {}
        /\ split_result.status = "COUNT" =>
               \A group_name \in Range(TARGET_CATEGORIES(contextMap)) :
                   (/\ ~GroupPositive(group_name)
                    /\ ContextOf(group_name) \cap DOMAIN OriginalSymbols # {})
                       => /\ group_name \in DOMAIN splitInput
                          /\ group_name \notin DOMAIN splitOutput
                          /\ DOMAIN splitInput[group_name].content.input.symbol_data_for_analysis
                                 = ContextOf(group_name) \cap DOMAIN OriginalSymbols

\* A file was split without an error and a Negative record was made for a group
\* that is no key of the original symbols and has no labels, on the strength of a
\* context category alone.
C30_Witness ==
    /\ SplitDone /\ InputReadable
    /\ contextMap = BACKUP_CONTEXT_MAP
    /\ split_result.status = "COUNT"
    /\ \E group_name \in DOMAIN splitInput :
           /\ group_name \notin DOMAIN OriginalSymbols
           /\ group_name \notin DOMAIN JsonOutput
           /\ group_name \notin DOMAIN splitOutput
           /\ group_name \notin DOMAIN splitInput[group_name].content.input.symbol_data_for_analysis

-----------------------------------------------------------------------------
(* Properties of name normalization.                                       *)

\* The part of s before its first '(' (all of s if it has none).
BeforeParen(s) ==
    IF HasChar(s, "(") THEN SubSeq(s, 1, FirstIndex(s, "(") - 1) ELSE s

\* Number of '.' characters s begins with.
LeadingDots(s) ==
    IF \E i \in 1..Len(s) : s[i] # "."
    THEN (CHOOSE i \in 1..Len(s) : s[i] # "." /\ \A j \in 1..(i - 1) : s[j] = ".") - 1
    ELSE Len(s)

Drop(s, k) == SubSeq(s, k + 1, Len(s))

\* C8 as claimed: the result has no '(' and is the input's prefix before its first
\* '(', leading markers removed.  The code violates it.
C8_StripsFromFirstParen ==
    cleaned # NoResult =>
        /\ ~HasChar(cleaned.value, "(")
        /\ cleaned.value = Drop(BeforeParen(symbol_name), LeadingDots(BeforeParen(symbol_name)))

\* C9 as claimed: of k >= 1 leading dots exactly one is removed.  The code violates it.
C9_StripsOneDot ==
    (cleaned # NoResult /\ ~HasChar(symbol_name, "(") /\ LeadingDots(symbol_name) >= 1)
        => cleaned.value = Tail(symbol_name)

\* C9 amended: every leading '.' is removed, and nothing else: the result is the
\* name without its signature and without the whole run of dots it begins with, so
\* the result never begins with a dot.
C9_StripsAllDots ==
    cleaned # NoResult =>
        /\ cleaned.value = Drop(RemoveSignature(symbol_name),
                                LeadingDots(RemoveSignature(symbol_name)))
        /\ ~HasChar(symbol_name, "(")
               => cleaned.value = Drop(symbol_name, LeadingDots(symbol_name))
        /\ cleaned.value # <<>> => Head(cleaned.value) # "."

\* A name with two leading dots and no signature has been normalized.
C9_Witness ==
    /\ cleaned # NoResult
    /\ ~HasChar(symbol_name, "(")
    /\ LeadingDots(symbol_name) >= 2
    /\ Len(symbol_name) > LeadingDots(symbol_name)

\* C10: normalizing a normalized name changes nothing.
C10_Idempotent ==
    recleaned # NoResult => recleaned.value = cleaned.value

\* The second normalization has run on a name the first one changed in both ways.
C10_Witness ==
    /\ recleaned # NoResult
    /\ HasChar(symbol_name, "(") /\ HasChar(symbol_name, ")")
    /\ LeadingDots(RemoveSignature(symbol_name)) >= 2
    /\ cleaned.value # <<>>

====
